---- MODULE Spec2Model ----
(***************************************************************************)
(* Referral backend: JWT issuance and validation, the Authenticate /       *)
(* RequireRole middleware chain, the two fixed-window rate limiters, and   *)
(* the student-registration / referral-status workflow.                    *)
(*                                                                         *)
(* Three specifications share the module, one per subsystem:               *)
(*   SpecAuth  tokens and the authentication middleware                    *)
(*   SpecRate  RateLimiter.Limit and AuthRateLimiter.Limit                 *)
(*   SpecRef   RegisterStudent and the admin referral-status operations    *)
(***************************************************************************)
EXTENDS Integers, Sequences, FiniteSets, TLC

VARIABLES
    now,        \* wall clock, in abstract time units
    jwt,        \* the JWTManager: secrets and expiries (fixed at construction)
    issued,     \* tokens handed out, each with the generator that made it
    resp        \* the most recent request served and its response

authVars == <<now, jwt, issued, resp>>

VARIABLES
    limits,     \* the two limiters' configuration (requests, window), fixed at construction
    counters,   \* counter store: key -> value (0 = the key does not exist)
    ttls,       \* counter store: key -> remaining time to live (0 = no expiry set)
    hits,       \* per key, the requests counted since the key last did not exist
    renewed,    \* the keys whose counter has expired at least once
    rresp       \* the most recent request through the limiter chain and its response

rateVars == <<limits, counters, ttls, hits, renewed, rresp>>

VARIABLES
    variant,    \* which of the two RegisterStudent builds runs: "flat" or "percent"
    users,      \* the users table
    referrals,  \* the referrals table, in insertion order
    origin,     \* for each row, what the registration that made it had resolved
    registered, \* the number of student registrations performed so far
    sresp       \* the most recent student registration request and its response

refVars == <<variant, users, referrals, origin, registered, sresp>>

VARIABLES
    payouts,    \* the payouts table, in insertion order
    presp       \* the most recent UpdatePayoutStatus request and its response

payVars == <<payouts, presp>>

VARIABLES
    passwords,  \* users table: user id -> password set (password_hash)
    tokens,     \* the password_reset_tokens table
    minted,     \* how many reset tokens GenerateToken has produced
    inflight,   \* per connection, the request being served and where its handler stands
    uses,       \* per reset token, the password updates it has authorized
    storeFailed, \* whether any call to the store has failed so far
    fresp       \* the most recent response of ForgotPassword or ResetPassword

resetVars == <<passwords, tokens, minted, inflight, uses, storeFailed, fresp>>

VARIABLES
    accounts,   \* users table rows (email, referral code) under concurrent registration
    regs,       \* per connection, its Register request and where the handler stands
    regFailed   \* whether any store call of a registration has failed so far

cregVars == <<accounts, regs, regFailed>>

VARIABLES
    enrolled,   \* referrals table as notifications are dispatched
    members,    \* users table as notifications are dispatched
    handler,    \* the registration handler between dispatching e-mails and responding
    mails,      \* the notifications started with a go statement, and how each fared
    mresp       \* the most recent registration response

mailVars == <<enrolled, members, handler, mails, mresp>>

VARIABLES
    pagein,     \* a list request: its page and per_page query values, the rows counted
    pageout     \* the paginated response to it

pageVars == <<pagein, pageout>>

VARIABLES
    ledger,     \* referrals table as admins settle it
    aresp       \* the most recent response of a request that touches the ledger

ledgerVars == <<ledger, aresp>>

VARIABLES
    profile,    \* the users row of the user who edits their profile
    edits       \* per connection, its UpdateProfile request and where the handler stands

profVars == <<profile, edits>>

\* Concurrent requests on one rate-limit key: the store, the limiter's
\* configuration, each request's position, the count of key lifetimes so
\* far, and whether a store call has failed or a request has stopped.
VARIABLES lstore, lcfg, lconns, epoch, lfailed
limVars == <<lstore, lcfg, lconns, epoch, lfailed>>

\* Blocking: each user's is_blocked column, the refresh tokens clients hold,
\* the clock, and the last operation's outcome.
VARIABLES blocked, held, bnow, bresp
blockVars == <<blocked, held, bnow, bresp>>

vars == <<authVars, rateVars, refVars, payVars, resetVars, cregVars, mailVars, pageVars, ledgerVars, profVars, limVars, blockVars>>

\* The variables of all parts but one.
notAuthVars == <<rateVars, refVars, payVars, resetVars, cregVars, mailVars, pageVars, ledgerVars, profVars, limVars, blockVars>>
notRateVars == <<authVars, refVars, payVars, resetVars, cregVars, mailVars, pageVars, ledgerVars, profVars, limVars, blockVars>>
notRefVars == <<authVars, rateVars, payVars, resetVars, cregVars, mailVars, pageVars, ledgerVars, profVars, limVars, blockVars>>
notPayVars == <<authVars, rateVars, refVars, resetVars, cregVars, mailVars, pageVars, ledgerVars, profVars, limVars, blockVars>>
notResetVars == <<authVars, rateVars, refVars, payVars, cregVars, mailVars, pageVars, ledgerVars, profVars, limVars, blockVars>>
notCregVars == <<authVars, rateVars, refVars, payVars, resetVars, mailVars, pageVars, ledgerVars, profVars, limVars, blockVars>>
notMailVars == <<authVars, rateVars, refVars, payVars, resetVars, cregVars, pageVars, ledgerVars, profVars, limVars, blockVars>>
notPageVars == <<authVars, rateVars, refVars, payVars, resetVars, cregVars, mailVars, ledgerVars, profVars, limVars, blockVars>>
notLedgerVars == <<authVars, rateVars, refVars, payVars, resetVars, cregVars, mailVars, pageVars, profVars, limVars, blockVars>>
notProfVars == <<authVars, rateVars, refVars, payVars, resetVars, cregVars, mailVars, pageVars, ledgerVars, limVars, blockVars>>
notLimVars == <<authVars, rateVars, refVars, payVars, resetVars, cregVars, mailVars, pageVars, ledgerVars, profVars, blockVars>>
notBlockVars == <<authVars, rateVars, refVars, payVars, resetVars, cregVars, mailVars, pageVars, ledgerVars, profVars, limVars>>

\* Each part of the server is explored on its own; the variables of the other
\* parts then stay at the empty values their initial predicates give them.

(***************************************************************************)
(* Bounds of the token model                                               *)
(***************************************************************************)
MaxTime == 2
MaxExpiry == 1
MaxIssued == 1

(***************************************************************************)
(* internal/models: Role                                                   *)
(***************************************************************************)
RoleAdmin == "admin"
RoleUser == "user"
Roles == {RoleAdmin, RoleUser}

\* The accounts tokens are issued for: one administrator, one ordinary user.
Accounts == {[id |-> "a1", role |-> RoleAdmin], [id |-> "u1", role |-> RoleUser]}

(***************************************************************************)
(* internal/utils: JWT manager                                             *)
(***************************************************************************)
ErrInvalidToken == "invalid token"
ErrExpiredToken == "token has expired"
NoErr == "nil"

AccessToken == "access"
RefreshToken == "refresh"

\* Secrets a deployment may configure; "attacker" is a key the server never holds.
Secrets == {"k1", "k2"}
AttackerKey == "attacker"

\* A token string, by what the parser can see in it:
\*   wf   three well-formed base64 segments with a JSON claims object
\*   alg  the header's signing method
\*   key  the key whose HMAC the signature segment is (signature check = equality)
\*   uid, role, typ, exp   the claims
NoClaims == [uid |-> "", role |-> "", typ |-> "", exp |-> 0]

Token(wf, alg, key, uid, role, typ, exp) ==
    [wf |-> wf, alg |-> alg, key |-> key, uid |-> uid, role |-> role, typ |-> typ, exp |-> exp]

NewJWTManager(accessSecret, refreshSecret, accessExpiry, refreshExpiry) ==
    [accessSecret |-> accessSecret, refreshSecret |-> refreshSecret,
     accessExpiry |-> accessExpiry, refreshExpiry |-> refreshExpiry]

GenerateAccessTokenOf(j, acct, t) ==
    Token(TRUE, "HS256", j.accessSecret, acct.id, acct.role, AccessToken, t + j.accessExpiry)

GenerateRefreshTokenOf(j, acct, t) ==
    Token(TRUE, "HS256", j.refreshSecret, acct.id, acct.role, RefreshToken, t + j.refreshExpiry)

\* jwt.ParseWithClaims as validateToken calls it: structure, then the key function
\* (HMAC methods only), then the signature under `secret`, then the registered
\* claims (exp against the clock: valid only while t < exp).
ParseWithClaims(tok, secret, t) ==
    IF ~tok.wf THEN "malformed"
    ELSE IF tok.alg # "HS256" THEN "unverifiable"
    ELSE IF tok.key # secret THEN "signature"
    ELSE IF t >= tok.exp THEN "expired"
    ELSE "ok"

ClaimsOf(tok) == [uid |-> tok.uid, role |-> tok.role, typ |-> tok.typ, exp |-> tok.exp]

\* validateToken without the token-class comparison.
validateTokenNoClass(tok, secret, expectedType, t) ==
    LET perr == ParseWithClaims(tok, secret, t) IN
    IF perr # "ok"
    THEN IF perr = "expired"
         THEN [err |-> ErrExpiredToken, claims |-> NoClaims]
         ELSE [err |-> ErrInvalidToken, claims |-> NoClaims]
    ELSE [err |-> NoErr, claims |-> ClaimsOf(tok)]

\* validateToken that reports every parse failure as ErrInvalidToken.
validateTokenNoExpired(tok, secret, expectedType, t) ==
    LET perr == ParseWithClaims(tok, secret, t) IN
    IF perr # "ok"
    THEN [err |-> ErrInvalidToken, claims |-> NoClaims]
    ELSE IF tok.typ # expectedType
         THEN [err |-> ErrInvalidToken, claims |-> NoClaims]
         ELSE [err |-> NoErr, claims |-> ClaimsOf(tok)]

validateToken(tok, secret, expectedType, t) ==
    LET perr == ParseWithClaims(tok, secret, t) IN
    IF perr # "ok"
    THEN IF perr = "expired"
         THEN [err |-> ErrExpiredToken, claims |-> NoClaims]
         ELSE [err |-> ErrInvalidToken, claims |-> NoClaims]
    ELSE IF tok.typ # expectedType
         THEN [err |-> ErrInvalidToken, claims |-> NoClaims]
         ELSE [err |-> NoErr, claims |-> ClaimsOf(tok)]

ValidateAccessTokenOf(j, tok, t) == validateToken(tok, j.accessSecret, AccessToken, t)

ValidateRefreshTokenOf(j, tok, t) == validateToken(tok, j.refreshSecret, RefreshToken, t)

(***************************************************************************)
(* internal/middleware: Authenticate and RequireRole                       *)
(*                                                                         *)
(* An Authorization header is the list strings.Split(header, " ") yields;  *)
(* the empty header is <<>>.  A token part is a Token record.              *)
(***************************************************************************)
StatusOK == 200
StatusUnauthorized == 401
StatusForbidden == 403

NoCtx == [ok |-> FALSE, claims |-> NoClaims]

\* Result of one middleware: pass = next.ServeHTTP was called; otherwise the
\* response it wrote.  stages = the request states it moved through.
Authenticate(j, header, t) ==
    IF header = <<>>
    THEN [pass |-> FALSE, status |-> StatusUnauthorized, error |-> "missing authorization header",
          ctx |-> NoCtx, verr |-> "none", stages |-> <<>>]
    ELSE IF Len(header) # 2 \/ header[1] # "Bearer"
    THEN [pass |-> FALSE, status |-> StatusUnauthorized, error |-> "invalid authorization format",
          ctx |-> NoCtx, verr |-> "none", stages |-> <<>>]
    ELSE LET v == ValidateAccessTokenOf(j, header[2], t) IN
         IF v.err # NoErr
         THEN IF v.err = ErrExpiredToken
              THEN [pass |-> FALSE, status |-> StatusUnauthorized, error |-> "token expired",
                    ctx |-> NoCtx, verr |-> v.err, stages |-> <<"TokenPresent">>]
              ELSE [pass |-> FALSE, status |-> StatusUnauthorized, error |-> "invalid token",
                    ctx |-> NoCtx, verr |-> v.err, stages |-> <<"TokenPresent">>]
         ELSE [pass |-> TRUE, status |-> 0, error |-> "",
               ctx |-> [ok |-> TRUE, claims |-> v.claims], verr |-> v.err,
               stages |-> <<"TokenPresent", "TokenValid">>]

\* RequireRole answering a role mismatch with 401.
RequireRoleUnauthorized(role, ctx) ==
    IF ~ctx.ok \/ ctx.claims.role # role
    THEN [pass |-> FALSE, status |-> StatusUnauthorized, error |-> "unauthorized", stages |-> <<>>]
    ELSE [pass |-> TRUE, status |-> 0, error |-> "", stages |-> <<"RoleChecked", "Authorized">>]

\* RequireRole with a role hierarchy: an admin passes every role check.
RequireRoleHierarchy(role, ctx) ==
    IF ~ctx.ok
    THEN [pass |-> FALSE, status |-> StatusUnauthorized, error |-> "unauthorized", stages |-> <<>>]
    ELSE IF ctx.claims.role # role /\ ctx.claims.role # RoleAdmin
    THEN [pass |-> FALSE, status |-> StatusForbidden, error |-> "forbidden",
          stages |-> <<"RoleChecked">>]
    ELSE [pass |-> TRUE, status |-> 0, error |-> "", stages |-> <<"RoleChecked", "Authorized">>]

RequireRole(role, ctx) ==
    IF ~ctx.ok
    THEN [pass |-> FALSE, status |-> StatusUnauthorized, error |-> "unauthorized", stages |-> <<>>]
    ELSE IF ctx.claims.role # role
    THEN [pass |-> FALSE, status |-> StatusForbidden, error |-> "forbidden",
          stages |-> <<"RoleChecked">>]
    ELSE [pass |-> TRUE, status |-> 0, error |-> "", stages |-> <<"RoleChecked", "Authorized">>]

\* cmd/server main: the two role-guarded route groups.
GuardedRoutes == {"/api/v1/admin", "/api/v1/user"}

RouteRole(route) == IF route = "/api/v1/admin" THEN RoleAdmin ELSE RoleUser

\* r.Use(Authenticate); r.Use(RequireRole(role)); then the route's handler.
ServeGuarded(j, route, header, t) ==
    LET a == Authenticate(j, header, t) IN
    IF ~a.pass
    THEN [status |-> a.status, error |-> a.error, handler |-> FALSE,
          stages |-> a.stages, verr |-> a.verr]
    ELSE LET q == RequireRole(RouteRole(route), a.ctx) IN
         IF ~q.pass
         THEN [status |-> q.status, error |-> q.error, handler |-> FALSE,
               stages |-> a.stages \o q.stages, verr |-> a.verr]
         ELSE [status |-> StatusOK, error |-> "", handler |-> TRUE,
               stages |-> a.stages \o q.stages, verr |-> a.verr]

(***************************************************************************)
(* internal/middleware: RateLimiter and AuthRateLimiter                    *)
(*                                                                         *)
(* Time is counted in ticks, TicksPerSecond of them to a second, so that a *)
(* window need not be a whole number of seconds.                           *)
(***************************************************************************)
TicksPerSecond == 2
MaxRequests == 2
AuthRequests == 1

\* Windows run up to one and a half seconds; counters up to one past the limit.
MaxWindow == TicksPerSecond + 1
MaxCount == MaxRequests + 1

StatusTooManyRequests == 429

Clients == {"10.0.0.1"}
AuthPath == "/api/v1/auth/login"
OtherPath == "/api/v1/students/register"
Paths == {AuthPath, OtherPath}

\* fmt.Sprintf("rate_limit:%s", ip) and fmt.Sprintf("auth_rate_limit:%s:%s", path, ip)
GlobalKey(ip) == "rate_limit:" \o ip
AuthKey(path, ip) == "auth_rate_limit:" \o path \o ":" \o ip

Keys == {GlobalKey(c) : c \in Clients} \cup {AuthKey(AuthPath, c) : c \in Clients}

\* ip := r.RemoteAddr; if X-Forwarded-For is set, ip = forwarded
ClientIP(remoteAddr, forwarded) == IF forwarded # "" THEN forwarded ELSE remoteAddr

\* fmt.Sprintf("%.0f", window.Seconds()): the window in seconds, rounded to the
\* nearest integer, ties to even.
FormatSeconds(w) ==
    LET q == w \div TicksPerSecond
        r == w % TicksPerSecond
    IN  IF 2 * r < TicksPerSecond THEN q
        ELSE IF 2 * r > TicksPerSecond THEN q + 1
        ELSE IF q % 2 = 0 THEN q ELSE q + 1

\* internal/cache: Incr is the store's atomic increment (an absent key counts from
\* 0 and is created without expiry); it fails as a whole when the store is
\* unreachable.  Expire sets the key's time to live.
CacheIncr(st, key, ok) ==
    IF ok
    THEN [err |-> FALSE, count |-> st.cnt[key] + 1,
          st |-> [st EXCEPT !.cnt[key] = @ + 1]]
    ELSE [err |-> TRUE, count |-> 0, st |-> st]

CacheExpire(st, key, window, ok) ==
    IF ok /\ st.cnt[key] > 0 THEN [st EXCEPT !.ttl[key] = window] ELSE st

NoHeader == -1

\* RateLimiter.Limit rejecting from the N-th request on (>= for >).
RateLimiterLimitOffByOne(cfg, st, ip, incrOK, expireOK) ==
    LET key == GlobalKey(ip)
        inc == CacheIncr(st, key, incrOK)
    IN  IF inc.err
        THEN [st |-> st, pass |-> TRUE, status |-> 0, error |-> "",
              retryAfter |-> NoHeader, limitHdr |-> NoHeader, remainingHdr |-> NoHeader]
        ELSE LET st2 == IF inc.count = 1
                        THEN CacheExpire(inc.st, key, cfg.window, expireOK)
                        ELSE inc.st
             IN  IF inc.count >= cfg.requests
                 THEN [st |-> st2, pass |-> FALSE, status |-> StatusTooManyRequests,
                       error |-> "rate limit exceeded",
                       retryAfter |-> FormatSeconds(cfg.window),
                       limitHdr |-> NoHeader, remainingHdr |-> NoHeader]
                 ELSE [st |-> st2, pass |-> TRUE, status |-> 0, error |-> "",
                       retryAfter |-> NoHeader,
                       limitHdr |-> cfg.requests, remainingHdr |-> cfg.requests - inc.count]

\* RateLimiter.Limit failing closed: an increment error is answered 429.
RateLimiterLimitFailClosed(cfg, st, ip, incrOK, expireOK) ==
    LET key == GlobalKey(ip)
        inc == CacheIncr(st, key, incrOK)
    IN  IF inc.err
        THEN [st |-> st, pass |-> FALSE, status |-> StatusTooManyRequests,
              error |-> "rate limit exceeded", retryAfter |-> FormatSeconds(cfg.window),
              limitHdr |-> NoHeader, remainingHdr |-> NoHeader]
        ELSE LET st2 == IF inc.count = 1
                        THEN CacheExpire(inc.st, key, cfg.window, expireOK)
                        ELSE inc.st
             IN  IF inc.count > cfg.requests
                 THEN [st |-> st2, pass |-> FALSE, status |-> StatusTooManyRequests,
                       error |-> "rate limit exceeded",
                       retryAfter |-> FormatSeconds(cfg.window),
                       limitHdr |-> NoHeader, remainingHdr |-> NoHeader]
                 ELSE [st |-> st2, pass |-> TRUE, status |-> 0, error |-> "",
                       retryAfter |-> NoHeader,
                       limitHdr |-> cfg.requests, remainingHdr |-> cfg.requests - inc.count]

\* RateLimiter.Limit: pass = next.ServeHTTP was called; otherwise the response.
RateLimiterLimit(cfg, st, ip, incrOK, expireOK) ==
    LET key == GlobalKey(ip)
        inc == CacheIncr(st, key, incrOK)
    IN  IF inc.err
        THEN [st |-> st, pass |-> TRUE, status |-> 0, error |-> "",
              retryAfter |-> NoHeader, limitHdr |-> NoHeader, remainingHdr |-> NoHeader]
        ELSE LET st2 == IF inc.count = 1
                        THEN CacheExpire(inc.st, key, cfg.window, expireOK)
                        ELSE inc.st
             IN  IF inc.count > cfg.requests
                 THEN [st |-> st2, pass |-> FALSE, status |-> StatusTooManyRequests,
                       error |-> "rate limit exceeded",
                       retryAfter |-> FormatSeconds(cfg.window),
                       limitHdr |-> NoHeader, remainingHdr |-> NoHeader]
                 ELSE [st |-> st2, pass |-> TRUE, status |-> 0, error |-> "",
                       retryAfter |-> NoHeader,
                       limitHdr |-> cfg.requests, remainingHdr |-> cfg.requests - inc.count]

\* AuthRateLimiter.Limit: the same algorithm under the key prefix of the auth routes.
AuthRateLimiterLimit(cfg, st, path, ip, incrOK, expireOK) ==
    LET key == AuthKey(path, ip)
        inc == CacheIncr(st, key, incrOK)
    IN  IF inc.err
        THEN [st |-> st, pass |-> TRUE, status |-> 0, error |-> "",
              retryAfter |-> NoHeader, limitHdr |-> NoHeader, remainingHdr |-> NoHeader]
        ELSE LET st2 == IF inc.count = 1
                        THEN CacheExpire(inc.st, key, cfg.window, expireOK)
                        ELSE inc.st
             IN  IF inc.count > cfg.requests
                 THEN [st |-> st2, pass |-> FALSE, status |-> StatusTooManyRequests,
                       error |-> "too many authentication attempts, please try again later",
                       retryAfter |-> FormatSeconds(cfg.window),
                       limitHdr |-> NoHeader, remainingHdr |-> NoHeader]
                 ELSE [st |-> st2, pass |-> TRUE, status |-> 0, error |-> "",
                       retryAfter |-> NoHeader,
                       limitHdr |-> cfg.requests, remainingHdr |-> cfg.requests - inc.count]

\* cmd/server main: r.Use(rateLimiter.Limit) on every route, then
\* r.Use(authRateLimiter.Limit) on the /auth group, then the handler.
\* Each limiter's outcome is kept: "skipped" when the request never reached it,
\* "failopen" when its increment failed, "admitted", or "rejected".
Outcome(res, incrOK) ==
    IF ~incrOK THEN "failopen" ELSE IF res.pass THEN "admitted" ELSE "rejected"

ServeLimited(lim, st, path, ip, gIncr, gExp, aIncr, aExp) ==
    LET g == RateLimiterLimit(lim.global, st, ip, gIncr, gExp) IN
    IF ~g.pass
    THEN [st |-> g.st, status |-> g.status, error |-> g.error, retryAfter |-> g.retryAfter,
          handler |-> FALSE, global |-> Outcome(g, gIncr), auth |-> "skipped"]
    ELSE IF path # AuthPath
    THEN [st |-> g.st, status |-> StatusOK, error |-> "", retryAfter |-> NoHeader,
          handler |-> TRUE, global |-> Outcome(g, gIncr), auth |-> "skipped"]
    ELSE LET a == AuthRateLimiterLimit(lim.auth, g.st, path, ip, aIncr, aExp) IN
         IF ~a.pass
         THEN [st |-> a.st, status |-> a.status, error |-> a.error,
               retryAfter |-> a.retryAfter, handler |-> FALSE,
               global |-> Outcome(g, gIncr), auth |-> Outcome(a, aIncr)]
         ELSE [st |-> a.st, status |-> StatusOK, error |-> "", retryAfter |-> NoHeader,
               handler |-> TRUE, global |-> Outcome(g, gIncr), auth |-> Outcome(a, aIncr)]

(***************************************************************************)
(* SpecRate: requests pass the limiter chain, counters expire with time.   *)
(***************************************************************************)
Store == [cnt |-> counters, ttl |-> ttls]

NoRResp ==
    [status |-> 0, error |-> "", retryAfter |-> NoHeader, handler |-> FALSE,
     global |-> "skipped", auth |-> "skipped",
     gNth |-> 0, aNth |-> 0, gFresh |-> FALSE, aFresh |-> FALSE]

\* The global limiter takes its requests and window from the configuration; the
\* auth limiter is built with constants in main (5 per minute, scaled down here).
LimiterConfigs == [requests : 1..MaxRequests, window : 1..MaxWindow]

AuthLimiterConfig == [requests |-> AuthRequests, window |-> TicksPerSecond]

InitRate ==
    /\ limits \in [global : LimiterConfigs, auth : {AuthLimiterConfig}]
    /\ counters = [k \in Keys |-> 0]
    /\ ttls = [k \in Keys |-> 0]
    /\ hits = [k \in Keys |-> 0]
    /\ renewed = {}
    /\ rresp = NoRResp
    /\ now = 0
    /\ jwt = <<>>
    /\ issued = {}
    /\ resp = <<>>
    /\ variant = ""
    /\ users = {}
    /\ referrals = <<>>
    /\ origin = <<>>
    /\ registered = 0
    /\ sresp = <<>>
    /\ payouts = <<>>
    /\ presp = <<>>
    /\ passwords = <<>>
    /\ tokens = {}
    /\ minted = 0
    /\ inflight = <<>>
    /\ uses = <<>>
    /\ storeFailed = FALSE
    /\ fresp = <<>>
    /\ accounts = {}
    /\ regs = <<>>
    /\ regFailed = FALSE
    /\ enrolled = <<>>
    /\ members = {}
    /\ handler = <<>>
    /\ mails = <<>>
    /\ mresp = <<>>
    /\ pagein = <<>>
    /\ pageout = <<>>
    /\ ledger = <<>>
    /\ aresp = <<>>
    /\ profile = <<>>
    /\ edits = <<>>
    /\ lstore = <<>>
    /\ lcfg = <<>>
    /\ lconns = <<>>
    /\ epoch = 0
    /\ lfailed = FALSE
    /\ blocked = <<>>
    /\ held = {}
    /\ bnow = 0
    /\ bresp = <<>>

\* The calls to the store that fail during one request.
StoreFailures == {{}, {"gIncr"}, {"aIncr"}, {"gIncr", "aIncr"}, {"gExpire"}, {"aExpire"}}

\* One request, served to its response.  The store may fail at each call.
\* hits counts, per key, the requests the store has counted in the running window;
\* renewed holds the keys whose counter has expired and not been counted on since.
LimitedRequest ==
    \E path \in Paths, remoteAddr \in Clients, forwarded \in {""} \cup Clients,
       f \in StoreFailures :
        LET ip == ClientIP(remoteAddr, forwarded)
            gk == GlobalKey(ip)
            ak == AuthKey(path, ip)
            r  == ServeLimited(limits, Store, path, ip,
                               "gIncr" \notin f, "gExpire" \notin f,
                               "aIncr" \notin f, "aExpire" \notin f)
            gCounted == r.global \in {"admitted", "rejected"}
            aCounted == r.auth \in {"admitted", "rejected"}
            counted == {k \in Keys : (k = gk /\ gCounted) \/ (k = ak /\ aCounted)}
        IN  /\ counters[gk] < MaxCount
            /\ path = AuthPath => counters[ak] < MaxCount
            /\ counters' = r.st.cnt
            /\ ttls' = r.st.ttl
            /\ hits' = [k \in Keys |-> IF k \in counted THEN hits[k] + 1 ELSE hits[k]]
            /\ renewed' = renewed \ counted
            /\ rresp' = [status |-> r.status, error |-> r.error,
                         retryAfter |-> r.retryAfter, handler |-> r.handler,
                         global |-> r.global, auth |-> r.auth,
                         gNth |-> IF gCounted THEN hits[gk] + 1 ELSE 0,
                         aNth |-> IF aCounted THEN hits[ak] + 1 ELSE 0,
                         gFresh |-> gCounted /\ gk \in renewed,
                         aFresh |-> aCounted /\ ak \in renewed]
            /\ UNCHANGED <<limits, notRateVars>>

\* One tick passes: every time to live runs down, and a key whose time is up is gone.
Expiring == {k \in Keys : ttls[k] = 1}

TickRate ==
    /\ \E k \in Keys : ttls[k] > 0
    /\ ttls' = [k \in Keys |-> IF ttls[k] > 0 THEN ttls[k] - 1 ELSE 0]
    /\ counters' = [k \in Keys |-> IF k \in Expiring THEN 0 ELSE counters[k]]
    /\ hits' = [k \in Keys |-> IF k \in Expiring THEN 0 ELSE hits[k]]
    /\ renewed' = renewed \cup Expiring
    /\ UNCHANGED <<limits, rresp, notRateVars>>

NextRate ==
    \/ LimitedRequest
    \/ TickRate

SpecRate == InitRate /\ [][NextRate]_vars

(***************************************************************************)
(* Users, student registration and referral status                         *)
(***************************************************************************)
MaxReferrals == 2

StatusCreated == 201
StatusBadRequest == 400
StatusNotFound == 404
StatusConflict == 409
StatusInternalServerError == 500

\* A nil *uuid.UUID / SQL NULL in referrer_id.  Row and user ids are positive.
NullId == 0

NoCode == ""

\* utils.GenerateReferralCode: the upper-cased first three characters of the name,
\* "-", and six hex digits drawn at random (the suffix argument).
Prefix(name) ==
    CASE name = "John Doe" -> "JOH"
      [] name = "Super Admin" -> "SUP"
      [] OTHER -> name

Suffixes == {"1A2B3C"}

\* A generator that draws the same six digits every time.
GenerateReferralCodeStuck(name, suffix) == Prefix(name) \o "-" \o "1A2B3C"

GenerateReferralCode(name, suffix) == Prefix(name) \o "-" \o suffix

\* UserRepository
ErrUserNotFound == "user not found"
DbError == "db error"

ExistsByEmail(us, email) == \E u \in us : u.email = email

ExistsByReferralCode(us, code) == \E u \in us : u.code = code

\* GetByReferralCode reporting "no rows" as any other store error.
GetByReferralCodeNoRowsIsError(us, code, dbOK) ==
    IF ~dbOK THEN [err |-> DbError, id |-> NullId, name |-> ""]
    ELSE IF \E u \in us : u.code = code
    THEN LET u == CHOOSE w \in us : w.code = code IN [err |-> NoErr, id |-> u.id, name |-> u.name]
    ELSE [err |-> DbError, id |-> NullId, name |-> ""]

\* GetByReferralCode without its WHERE clause: some user, when the code exists.
GetByReferralCodeAnyUser(us, code, dbOK) ==
    IF ~dbOK THEN [err |-> DbError, id |-> NullId, name |-> ""]
    ELSE IF \E u \in us : u.code = code
    THEN LET u == CHOOSE w \in us : TRUE IN [err |-> NoErr, id |-> u.id, name |-> u.name]
    ELSE [err |-> ErrUserNotFound, id |-> NullId, name |-> ""]

\* UserRepository.GetByReferralCode
GetByReferralCode(us, code, dbOK) ==
    IF ~dbOK THEN [err |-> DbError, id |-> NullId, name |-> ""]
    ELSE IF \E u \in us : u.code = code
    THEN LET u == CHOOSE w \in us : w.code = code IN [err |-> NoErr, id |-> u.id, name |-> u.name]
    ELSE [err |-> ErrUserNotFound, id |-> NullId, name |-> ""]

\* AuthService.CreateAdmin as ensureAdminExists calls it on an empty users table,
\* with the configuration's default e-mail and name.
AdminUser(suffix) ==
    [id |-> 1, email |-> "admin@cirvee.com", name |-> "Super Admin", role |-> RoleAdmin,
     code |-> GenerateReferralCode("Super Admin", suffix)]

\* AuthHandler.Register with AuthService.Register, run to its response: the e-mail
\* pre-check, the referral-code loop (it leaves with a code no user has) and the
\* insert.  `valid` stands for decoding and validation of the body.
RegisterOutcome(us, valid, email, name, suffix, dbOK) ==
    IF ~valid THEN [users |-> us, status |-> StatusBadRequest]
    ELSE IF ~dbOK THEN [users |-> us, status |-> StatusInternalServerError]
    ELSE IF ExistsByEmail(us, email) THEN [users |-> us, status |-> StatusConflict]
    ELSE [users |-> us \cup {[id |-> Cardinality(us) + 1, email |-> email, name |-> name,
                              role |-> RoleUser,
                              code |-> GenerateReferralCode(name, suffix)]},
          status |-> StatusCreated]

\* handlers/student_handler: the course price table and the commission, in both builds.
CoursePrice(v, course) ==
    IF v = "flat"
    THEN CASE course = "Web Development" -> 750000
           [] course = "Data Science" -> 400000
           [] course = "Mobile Development" -> 400000
           [] course = "UI/UX Design" -> 350000
           [] course = "Digital Marketing" -> 100000
           [] course = "Cybersecurity" -> 400000
           [] course = "Cloud Computing" -> 400000
           [] course = "Machine Learning" -> 400000
           [] OTHER -> 100000
    ELSE CASE course = "Web Development" -> 150000
           [] course = "Data Science" -> 180000
           [] course = "Mobile Development" -> 160000
           [] course = "UI/UX Design" -> 120000
           [] course = "Digital Marketing" -> 100000
           [] course = "Cybersecurity" -> 200000
           [] course = "Cloud Computing" -> 170000
           [] course = "Machine Learning" -> 190000
           [] OTHER -> 100000

referralCommission == 10000
earningsPercentage == 10

Earnings(v, coursePrice) ==
    IF v = "flat" THEN referralCommission ELSE (coursePrice * earningsPercentage) \div 100

\* validate tags of StudentRegistrationRequest
ValidStudentRequest(req) ==
    /\ Len(req.name) >= 2
    /\ req.emailOK
    /\ req.phone # ""
    /\ req.course # ""

\* The referrals table's constraints: the status check, and referrer_id, which
\* holds NULL for a direct signup.
ReferralStatuses == {"pending", "paid", "rejected"}

ReferrerIdNullable == TRUE

\* ReferralRepository.Create storing nothing for a direct signup.
ReferralCreateSkipsDirect(rows, row, dbOK) ==
    IF ~dbOK \/ row.status \notin ReferralStatuses
    THEN [err |-> TRUE, rows |-> rows]
    ELSE IF row.referrer = NullId THEN [err |-> FALSE, rows |-> rows]
    ELSE [err |-> FALSE, rows |-> Append(rows, row)]

\* ReferralRepository.Create: the row is appended unless the store fails or a
\* constraint rejects it.
ReferralCreate(rows, row, dbOK) ==
    IF ~dbOK \/ row.status \notin ReferralStatuses
       \/ (row.referrer = NullId /\ ~ReferrerIdNullable)
    THEN [err |-> TRUE, rows |-> rows]
    ELSE [err |-> FALSE, rows |-> Append(rows, row)]

NoBody == [message |-> "", referral |-> "", referrer |-> ""]

\* StudentHandler.RegisterStudent
RegisterStudentOutcome(v, us, rows, req, lookupOK, createOK) ==
    IF ~req.decodes
    THEN [rows |-> rows, status |-> StatusBadRequest, error |-> "invalid request body",
          body |-> NoBody]
    ELSE IF ~ValidStudentRequest(req)
    THEN [rows |-> rows, status |-> StatusBadRequest, error |-> "validation",
          body |-> NoBody]
    ELSE
    LET coursePrice == CoursePrice(v, req.course)
        look == IF req.code # NoCode
                THEN GetByReferralCode(us, req.code, lookupOK)
                ELSE [err |-> ErrUserNotFound, id |-> NullId, name |-> ""]
    IN  IF req.code # NoCode /\ look.err = DbError
        THEN [rows |-> rows, status |-> StatusInternalServerError,
              error |-> "failed to verify referral code", body |-> NoBody]
        ELSE
        LET found == req.code # NoCode /\ look.err = NoErr
            referrerID == IF found THEN look.id ELSE NullId
            earnings == IF found THEN Earnings(v, coursePrice) ELSE 0
            row == [referrer |-> referrerID, course |-> req.course,
                    price |-> coursePrice, earnings |-> earnings, status |-> "pending"]
            cr == ReferralCreate(rows, row, createOK)
        IN  IF cr.err
            THEN [rows |-> rows, status |-> StatusInternalServerError,
                  error |-> "failed to create referral record", body |-> NoBody]
            ELSE IF referrerID # NullId
            THEN [rows |-> cr.rows, status |-> StatusCreated, error |-> "",
                  body |-> [message |-> "Student registered successfully",
                            referral |-> "applied", referrer |-> look.name]]
            ELSE [rows |-> cr.rows, status |-> StatusCreated, error |-> "",
                  body |-> [message |-> "Student registered successfully",
                            referral |-> "", referrer |-> ""]]

\* ReferralRepository.UpdateStatus: UPDATE referrals SET status = $2 WHERE id = $1
ErrReferralNotFound == "referral not found"

UpdateStatus(rows, id, status, dbOK) ==
    IF ~dbOK THEN [err |-> DbError, rows |-> rows]
    ELSE IF id \notin DOMAIN rows THEN [err |-> ErrReferralNotFound, rows |-> rows]
    ELSE IF status \notin ReferralStatuses THEN [err |-> DbError, rows |-> rows]
    ELSE [err |-> NoErr, rows |-> [rows EXCEPT ![id].status = status]]

\* ReferralRepository.MarkReferralAsPaid
MarkReferralAsPaid(rows, id, dbOK) == UpdateStatus(rows, id, "paid", dbOK)

\* MarkReferralsAsPaid without the test on the current status.
MarkReferralsAsPaidAnyStatus(rows, referrerID, dbOK) ==
    IF ~dbOK THEN [err |-> DbError, rows |-> rows]
    ELSE [err |-> NoErr,
          rows |-> [i \in DOMAIN rows |->
                      IF rows[i].referrer = referrerID
                      THEN [rows[i] EXCEPT !.status = "paid"]
                      ELSE rows[i]]]

\* ReferralRepository.MarkReferralsAsPaid:
\* UPDATE referrals SET status = 'paid' WHERE referrer_id = $1 AND status = 'pending'
MarkReferralsAsPaid(rows, referrerID, dbOK) ==
    IF ~dbOK THEN [err |-> DbError, rows |-> rows]
    ELSE [err |-> NoErr,
          rows |-> [i \in DOMAIN rows |->
                      IF rows[i].referrer = referrerID /\ rows[i].status = "pending"
                      THEN [rows[i] EXCEPT !.status = "paid"]
                      ELSE rows[i]]]

\* AdminHandler.MarkReferralPaid; idOK stands for uuid.Parse of the path parameter.
MarkReferralPaidOutcome(rows, idOK, id, dbOK) ==
    IF ~idOK THEN [rows |-> rows, status |-> StatusBadRequest, error |-> "invalid referral ID"]
    ELSE LET r == MarkReferralAsPaid(rows, id, dbOK) IN
         IF r.err = ErrReferralNotFound
         THEN [rows |-> rows, status |-> StatusNotFound,
               error |-> "referral not found or already paid"]
         ELSE IF r.err # NoErr
         THEN [rows |-> rows, status |-> StatusInternalServerError,
               error |-> "failed to mark referral as paid"]
         ELSE [rows |-> r.rows, status |-> StatusOK, error |-> ""]

\* AdminHandler.UpdateReferralStatus; the body's status goes to the repository as decoded.
UpdateReferralStatusOutcome(rows, idOK, id, decodes, status, dbOK) ==
    IF ~idOK THEN [rows |-> rows, status |-> StatusBadRequest, error |-> "invalid referral ID"]
    ELSE IF ~decodes
    THEN [rows |-> rows, status |-> StatusBadRequest, error |-> "invalid request body"]
    ELSE LET r == UpdateStatus(rows, id, status, dbOK) IN
         IF r.err = ErrReferralNotFound
         THEN [rows |-> rows, status |-> StatusNotFound, error |-> "referral not found"]
         ELSE IF r.err # NoErr
         THEN [rows |-> rows, status |-> StatusInternalServerError,
               error |-> "failed to update referral status"]
         ELSE [rows |-> r.rows, status |-> StatusOK, error |-> ""]

\* AdminHandler.MarkReferrerPaid
MarkReferrerPaidOutcome(rows, idOK, referrerID, dbOK) ==
    IF ~idOK THEN [rows |-> rows, status |-> StatusBadRequest, error |-> "invalid referrer ID"]
    ELSE LET r == MarkReferralsAsPaid(rows, referrerID, dbOK) IN
         IF r.err # NoErr
         THEN [rows |-> rows, status |-> StatusInternalServerError,
               error |-> "failed to mark referrals as paid"]
         ELSE [rows |-> r.rows, status |-> StatusOK, error |-> ""]

(***************************************************************************)
(* SpecRef: users register, students register, admins set referral status. *)
(* The admin operations are taken as already past Authenticate and         *)
(* RequireRole(admin).  The store may fail at each call.                   *)
(***************************************************************************)
Variants == {"flat", "percent"}

Emails == {"john@example.com"}

ListedCourses ==
    {"Web Development", "Data Science", "Mobile Development", "UI/UX Design",
     "Digital Marketing", "Cybersecurity", "Cloud Computing", "Machine Learning"}

\* Courses asked for: one of the table, one the table does not list.
Courses == {"Web Development", "Pottery"}

UnknownCode == "XXX-000000"

CodesOf(us) == {u.code : u \in us}

StudentRequests(us) ==
    [decodes : {TRUE}, name : {"Ada Obi"}, emailOK : {TRUE}, phone : {"08012345678"},
     course : Courses, code : {NoCode, UnknownCode} \cup CodesOf(us)]
    \cup
    { [decodes |-> FALSE, name |-> "", emailOK |-> FALSE, phone |-> "", course |-> "",
       code |-> NoCode],
      [decodes |-> TRUE, name |-> "A", emailOK |-> TRUE, phone |-> "08012345678",
       course |-> "Pottery", code |-> UnknownCode],
      [decodes |-> TRUE, name |-> "Ada Obi", emailOK |-> FALSE, phone |-> "08012345678",
       course |-> "Pottery", code |-> UnknownCode],
      [decodes |-> TRUE, name |-> "Ada Obi", emailOK |-> TRUE, phone |-> "",
       course |-> "Pottery", code |-> UnknownCode],
      [decodes |-> TRUE, name |-> "Ada Obi", emailOK |-> TRUE, phone |-> "08012345678",
       course |-> "", code |-> UnknownCode] }

\* Status values an admin may put in the body of UpdateReferralStatus.
BodyStatuses == ReferralStatuses \cup {"", "approved"}

\* How the store behaves during one request: it works, or one call to it fails.
StoreCases ==
    { [lookupOK |-> TRUE, createOK |-> TRUE],
      [lookupOK |-> FALSE, createOK |-> TRUE],
      [lookupOK |-> TRUE, createOK |-> FALSE] }

NoSResp ==
    [status |-> 0, error |-> "", referral |-> "", valid |-> FALSE,
     code |-> NoCode, owner |-> NullId, storeOK |-> FALSE, row |-> 0]

InitRef ==
    /\ variant \in Variants
    /\ users = {AdminUser("1A2B3C")}
    /\ referrals = <<>>
    /\ origin = <<>>
    /\ registered = 0
    /\ sresp = NoSResp
    /\ now = 0
    /\ jwt = <<>>
    /\ issued = {}
    /\ resp = <<>>
    /\ limits = <<>>
    /\ counters = <<>>
    /\ ttls = <<>>
    /\ hits = <<>>
    /\ renewed = {}
    /\ rresp = <<>>
    /\ payouts = <<>>
    /\ presp = <<>>
    /\ passwords = <<>>
    /\ tokens = {}
    /\ minted = 0
    /\ inflight = <<>>
    /\ uses = <<>>
    /\ storeFailed = FALSE
    /\ fresp = <<>>
    /\ accounts = {}
    /\ regs = <<>>
    /\ regFailed = FALSE
    /\ enrolled = <<>>
    /\ members = {}
    /\ handler = <<>>
    /\ mails = <<>>
    /\ mresp = <<>>
    /\ pagein = <<>>
    /\ pageout = <<>>
    /\ ledger = <<>>
    /\ aresp = <<>>
    /\ profile = <<>>
    /\ edits = <<>>
    /\ lstore = <<>>
    /\ lcfg = <<>>
    /\ lconns = <<>>
    /\ epoch = 0
    /\ lfailed = FALSE
    /\ blocked = <<>>
    /\ held = {}
    /\ bnow = 0
    /\ bresp = <<>>

\* POST /api/v1/auth/register
RegisterUser ==
    /\ \E valid \in BOOLEAN, email \in Emails, dbOK \in BOOLEAN :
       \E suffix \in {x \in Suffixes :
                         ~ExistsByReferralCode(users, GenerateReferralCode("John Doe", x))} :
          users' = RegisterOutcome(users, valid, email, "John Doe", suffix, dbOK).users
    /\ UNCHANGED <<variant, referrals, origin, registered, sresp, notRefVars>>

\* The user a referral code belongs to, NullId when it belongs to nobody.
OwnerOf(us, code) ==
    IF code # NoCode /\ \E u \in us : u.code = code
    THEN (CHOOSE u \in us : u.code = code).id
    ELSE NullId

\* POST /api/v1/students/register
RegisterStudent ==
    /\ Len(referrals) < MaxReferrals
    /\ \E req \in StudentRequests(users), store \in StoreCases :
          LET r == RegisterStudentOutcome(variant, users, referrals, req,
                                          store.lookupOK, store.createOK)
              valid == req.decodes /\ ValidStudentRequest(req)
          IN  /\ referrals' = r.rows
              /\ origin' = IF Len(r.rows) > Len(referrals)
                           THEN Append(origin, [owner |-> OwnerOf(users, req.code),
                                                status |-> r.rows[Len(r.rows)].status])
                           ELSE origin
              /\ registered' = IF r.status = StatusCreated THEN registered + 1 ELSE registered
              /\ sresp' = [status |-> r.status, error |-> r.error,
                           referral |-> r.body.referral, valid |-> valid,
                           code |-> IF valid THEN req.code ELSE NoCode,
                           owner |-> IF valid THEN OwnerOf(users, req.code) ELSE NullId,
                           storeOK |-> store.lookupOK /\ store.createOK,
                           row |-> IF Len(r.rows) > Len(referrals) THEN Len(r.rows) ELSE 0]
    /\ UNCHANGED <<variant, users, notRefVars>>

RowIds == 1..(MaxReferrals + 1)

\* POST /api/v1/admin/referrals/{id}/paid
MarkReferralPaid ==
    /\ \E idOK \in BOOLEAN, id \in RowIds, dbOK \in BOOLEAN :
          referrals' = MarkReferralPaidOutcome(referrals, idOK, id, dbOK).rows
    /\ UNCHANGED <<variant, users, origin, registered, sresp, notRefVars>>

\* POST /api/v1/admin/referrers/{id}/paid
MarkReferrerPaid ==
    /\ \E idOK \in BOOLEAN, referrerID \in {u.id : u \in users}, dbOK \in BOOLEAN :
          referrals' = MarkReferrerPaidOutcome(referrals, idOK, referrerID, dbOK).rows
    /\ UNCHANGED <<variant, users, origin, registered, sresp, notRefVars>>

\* PATCH /api/v1/admin/referrals/{id}/status
UpdateReferralStatus ==
    /\ \E idOK \in BOOLEAN, id \in RowIds, decodes \in BOOLEAN, status \in BodyStatuses,
          dbOK \in BOOLEAN :
          referrals' =
              UpdateReferralStatusOutcome(referrals, idOK, id, decodes, status, dbOK).rows
    /\ UNCHANGED <<variant, users, origin, registered, sresp, notRefVars>>

NextRef ==
    \/ RegisterUser
    \/ RegisterStudent
    \/ MarkReferralPaid
    \/ MarkReferrerPaid
    \/ UpdateReferralStatus

SpecRef == InitRef /\ [][NextRef]_vars

(***************************************************************************)
(* SpecAuth: tokens are issued, time passes, requests arrive.              *)
(***************************************************************************)
FarFuture == MaxTime + MaxExpiry + 1

\* Tokens no generator of this server made.
ForgedTokens ==
    { Token(FALSE, "", "", "", "", "", 0),
      Token(TRUE, "none", "", "u1", RoleAdmin, AccessToken, FarFuture),
      Token(TRUE, "HS256", AttackerKey, "u1", RoleAdmin, AccessToken, 0) }

IssuedTokens == {i.tok : i \in issued}

PresentableTokens == IssuedTokens \cup ForgedTokens

\* Header shapes: the well-formed one for every token, the malformed ones around
\* tokens that would otherwise be accepted or rejected on their own merits.
HeadersOf(tok) == { <<"Bearer", tok>>, <<"bearer", tok>>, <<"Bearer", tok, "x">> }

Headers ==
    {<<>>, <<"Bearer">>} \cup {<<"Bearer", tok>> : tok \in ForgedTokens}
        \cup UNION {HeadersOf(tok) : tok \in IssuedTokens}

NoResp ==
    [route |-> "", header |-> <<>>, tok |-> Token(FALSE, "", "", "", "", "", 0), at |-> 0,
     status |-> 0, error |-> "", handler |-> FALSE, stages |-> <<>>, verr |-> "none"]

InitAuth ==
    /\ now = 0
    /\ jwt \in { NewJWTManager("k1", rs, ae, re) :
                    rs \in Secrets, ae \in 1..MaxExpiry, re \in 1..MaxExpiry }
    /\ issued = {}
    /\ resp = NoResp
    /\ limits = <<>>
    /\ counters = <<>>
    /\ ttls = <<>>
    /\ hits = <<>>
    /\ renewed = {}
    /\ rresp = <<>>
    /\ variant = ""
    /\ users = {}
    /\ referrals = <<>>
    /\ origin = <<>>
    /\ registered = 0
    /\ sresp = <<>>
    /\ payouts = <<>>
    /\ presp = <<>>
    /\ passwords = <<>>
    /\ tokens = {}
    /\ minted = 0
    /\ inflight = <<>>
    /\ uses = <<>>
    /\ storeFailed = FALSE
    /\ fresp = <<>>
    /\ accounts = {}
    /\ regs = <<>>
    /\ regFailed = FALSE
    /\ enrolled = <<>>
    /\ members = {}
    /\ handler = <<>>
    /\ mails = <<>>
    /\ mresp = <<>>
    /\ pagein = <<>>
    /\ pageout = <<>>
    /\ ledger = <<>>
    /\ aresp = <<>>
    /\ profile = <<>>
    /\ edits = <<>>
    /\ lstore = <<>>
    /\ lcfg = <<>>
    /\ lconns = <<>>
    /\ epoch = 0
    /\ lfailed = FALSE
    /\ blocked = <<>>
    /\ held = {}
    /\ bnow = 0
    /\ bresp = <<>>

Tick ==
    /\ now < MaxTime
    /\ now' = now + 1
    /\ UNCHANGED <<jwt, issued, resp, notAuthVars>>

\* AuthService.Login / Register / RefreshToken on success: one access token and
\* one refresh token for the account, both stamped with the current time.
IssueTokens ==
    /\ Cardinality(issued) < 2 * MaxIssued
    /\ \E acct \in Accounts :
          issued' = issued \cup
              { [tok |-> GenerateAccessTokenOf(jwt, acct, now), gen |-> AccessToken],
                [tok |-> GenerateRefreshTokenOf(jwt, acct, now), gen |-> RefreshToken] }
    /\ UNCHANGED <<now, jwt, resp, notAuthVars>>

\* A request to a route behind Authenticate + RequireRole.
GuardedRequest ==
    /\ \E route \in GuardedRoutes, header \in Headers :
          LET r == ServeGuarded(jwt, route, header, now) IN
          resp' = [route |-> route, header |-> header,
                   tok |-> IF Len(header) >= 2 THEN header[2] ELSE NoResp.tok, at |-> now,
                   status |-> r.status, error |-> r.error, handler |-> r.handler,
                   stages |-> r.stages, verr |-> r.verr]
    /\ UNCHANGED <<now, jwt, issued, notAuthVars>>

\* JWTManager.ValidateRefreshToken applied to a presented token, as
\* AuthService.RefreshToken does before anything else.
ValidateRefreshToken ==
    /\ \E tok \in PresentableTokens :
          LET v == ValidateRefreshTokenOf(jwt, tok, now) IN
          resp' = [route |-> "ValidateRefreshToken", header |-> <<>>, tok |-> tok, at |-> now,
                   status |-> 0, error |-> "", handler |-> FALSE, stages |-> <<>>,
                   verr |-> v.err]
    /\ UNCHANGED <<now, jwt, issued, notAuthVars>>

NextAuth ==
    \/ Tick
    \/ IssueTokens
    \/ GuardedRequest
    \/ ValidateRefreshToken

SpecAuth == InitAuth /\ [][NextAuth]_vars

(***************************************************************************)
(* Properties of SpecAuth                                                  *)
(***************************************************************************)
\* The request carried "Authorization: Bearer <tok>" with a token this server's
\* GenerateAccessToken made and whose expiry had not passed when it was served.
IssuedBy(tok, gen) == \E i \in issued : i.tok = tok /\ i.gen = gen

CarriesValidAccessToken ==
    /\ Len(resp.header) = 2
    /\ resp.header[1] = "Bearer"
    /\ IssuedBy(resp.tok, AccessToken)
    /\ resp.at < resp.tok.exp

AllStages == <<"TokenPresent", "TokenValid", "RoleChecked", "Authorized">>

\* C1: on a role-guarded route, a request without a valid access token (no header,
\* malformed scheme, invalid or expired token) is answered 401; a request with a
\* valid access token of the wrong role is answered 403 (so never 401).
C1_UnauthIs401_WrongRoleIs403 ==
    resp.route \in GuardedRoutes =>
        /\ ~CarriesValidAccessToken => resp.status = StatusUnauthorized
        /\ (CarriesValidAccessToken /\ resp.tok.role # RouteRole(resp.route))
              => resp.status = StatusForbidden

C1_Witness ==
    /\ resp.route \in GuardedRoutes
    /\ CarriesValidAccessToken
    /\ resp.tok.role # RouteRole(resp.route)
    /\ resp.status = StatusForbidden

\* C2: the handler behind Authenticate + RequireRole(R) runs only after the stages
\* TokenPresent, TokenValid, RoleChecked, Authorized were passed in that order, and
\* only for a valid access token whose role equals R; a valid token of any other
\* role (admin on a user route, user on an admin route) gets 403 and no handler.
C2_HandlerOnlyAfterAllStagesExactRole ==
    resp.route \in GuardedRoutes =>
        /\ \E n \in 0..Len(AllStages) : resp.stages = SubSeq(AllStages, 1, n)
        /\ resp.handler =>
              /\ resp.stages = AllStages
              /\ CarriesValidAccessToken
              /\ resp.tok.role = RouteRole(resp.route)
        /\ (CarriesValidAccessToken /\ resp.tok.role # RouteRole(resp.route)) =>
              /\ ~resp.handler
              /\ resp.status = StatusForbidden

C2_Witness ==
    /\ resp.route = "/api/v1/user"
    /\ CarriesValidAccessToken
    /\ resp.tok.role = RoleAdmin
    /\ ~resp.handler
    /\ resp.stages = <<"TokenPresent", "TokenValid", "RoleChecked">>

\* A validation of a token against the other class: a GenerateRefreshToken token
\* given to ValidateAccessToken (by Authenticate), or a GenerateAccessToken token
\* given to ValidateRefreshToken.
CrossClassValidation ==
    \/ /\ resp.route \in GuardedRoutes
       /\ resp.verr # "none"
       /\ IssuedBy(resp.tok, RefreshToken)
    \/ /\ resp.route = "ValidateRefreshToken"
       /\ IssuedBy(resp.tok, AccessToken)

\* C3 as stated: every refresh token fails ValidateAccessToken with InvalidToken and
\* every access token fails ValidateRefreshToken with InvalidToken, whatever the
\* two secrets are.
C3_CrossClassAlwaysInvalidToken ==
    CrossClassValidation => resp.verr = ErrInvalidToken

\* C3 amended: a token of the other class is never accepted; the error is
\* InvalidToken, except that with equal secrets a token already past its expiry
\* fails with ExpiredToken.
C3_CrossClassNeverAccepted ==
    CrossClassValidation =>
        /\ resp.verr # NoErr
        /\ resp.verr = ErrExpiredToken
              <=> (jwt.accessSecret = jwt.refreshSecret /\ resp.at >= resp.tok.exp)
        /\ resp.verr # ErrExpiredToken => resp.verr = ErrInvalidToken

C3_Witness ==
    /\ CrossClassValidation
    /\ jwt.accessSecret = jwt.refreshSecret
    /\ resp.at < resp.tok.exp
    /\ resp.verr = ErrInvalidToken

\* The class and secret the recorded validation checked against.
ValidatedAs == IF resp.route = "ValidateRefreshToken" THEN RefreshToken ELSE AccessToken

ValidatedWith ==
    IF resp.route = "ValidateRefreshToken" THEN jwt.refreshSecret ELSE jwt.accessSecret

\* C4: a token of the validated class, issued by this server, whose expiry has passed
\* fails with ExpiredToken; a bad signature, a malformed structure, a non-HMAC
\* method or (on an unexpired token) the wrong class fails with InvalidToken; and
\* Authenticate answers the first 401 "token expired", the others 401 "invalid token".
C4_ExpiredDistinctFromInvalid ==
    resp.verr # "none" =>
        /\ (IssuedBy(resp.tok, ValidatedAs) /\ resp.at >= resp.tok.exp)
              => resp.verr = ErrExpiredToken
        /\ (~resp.tok.wf \/ resp.tok.alg # "HS256" \/ resp.tok.key # ValidatedWith)
              => resp.verr = ErrInvalidToken
        /\ (resp.tok.wf /\ resp.tok.typ # ValidatedAs /\ resp.at < resp.tok.exp)
              => resp.verr = ErrInvalidToken
        /\ resp.route \in GuardedRoutes =>
              /\ resp.verr = ErrExpiredToken
                    => (resp.status = StatusUnauthorized /\ resp.error = "token expired")
              /\ resp.verr = ErrInvalidToken
                    => (resp.status = StatusUnauthorized /\ resp.error = "invalid token")

C4_Witness ==
    /\ resp.route \in GuardedRoutes
    /\ IssuedBy(resp.tok, AccessToken)
    /\ resp.at >= resp.tok.exp
    /\ resp.verr = ErrExpiredToken
    /\ resp.error = "token expired"

(***************************************************************************)
(* Properties of SpecRate                                                  *)
(***************************************************************************)
\* What one limiter did with the last request, judged against its configuration:
\* a request it counted past the limit is answered 429, one within the limit is
\* admitted.
LimiterVerdict(outcome, nth, cfg) ==
    /\ (outcome \in {"admitted", "rejected"} /\ nth > cfg.requests) =>
           /\ outcome = "rejected"
           /\ rresp.status = StatusTooManyRequests
           /\ ~rresp.handler
    /\ (outcome \in {"admitted", "rejected"} /\ nth <= cfg.requests) =>
           outcome = "admitted"

\* The first request counted after the counter expired is admitted.
FreshWindowAdmitted ==
    /\ rresp.gFresh => (rresp.gNth = 1 /\ rresp.global = "admitted")
    /\ rresp.aFresh => (rresp.aNth = 1 /\ rresp.auth = "admitted" /\ rresp.handler)

\* The window the Retry-After header of the last response speaks of.
RejectingWindow ==
    IF rresp.global = "rejected" THEN limits.global.window ELSE limits.auth.window

Rejected == rresp.global = "rejected" \/ rresp.auth = "rejected"

\* C5 as stated: the (N+1)-th request counted in one window is answered 429 with
\* Retry-After equal to the window length in seconds, and a request in a fresh
\* window is admitted again.
C5_RetryAfterIsWindowLength ==
    /\ LimiterVerdict(rresp.global, rresp.gNth, limits.global)
    /\ LimiterVerdict(rresp.auth, rresp.aNth, limits.auth)
    /\ Rejected => rresp.retryAfter * TicksPerSecond = RejectingWindow
    /\ FreshWindowAdmitted

\* C5: for a limiter of N requests per window, every request the store counts
\* past the N-th in one window is answered 429 with Retry-After set to the window's
\* seconds rounded to a whole number (the window itself when it is whole seconds),
\* requests counted up to the N-th are admitted, and the first request counted after
\* the counter expired is admitted again.
C5_LimitPerWindow ==
    /\ LimiterVerdict(rresp.global, rresp.gNth, limits.global)
    /\ LimiterVerdict(rresp.auth, rresp.aNth, limits.auth)
    /\ Rejected => rresp.retryAfter = FormatSeconds(RejectingWindow)
    /\ (Rejected /\ RejectingWindow % TicksPerSecond = 0) =>
           rresp.retryAfter * TicksPerSecond = RejectingWindow
    /\ FreshWindowAdmitted

C5_Witness ==
    /\ rresp.global = "rejected"
    /\ rresp.gNth = limits.global.requests + 1
    /\ rresp.status = StatusTooManyRequests
    /\ limits.global.window % TicksPerSecond # 0
    /\ rresp.retryAfter = FormatSeconds(limits.global.window)

\* C6: when the store's increment fails, the limiter passes the request on: the
\* global limiter to the next stage, the auth limiter to the handler, with no
\* rate-limit response, however many requests were counted before.
C6_FailOpen ==
    /\ rresp.global = "failopen" =>
           /\ rresp.status # StatusTooManyRequests \/ rresp.auth = "rejected"
           /\ rresp.auth = "skipped" => rresp.handler
    /\ rresp.auth = "failopen" =>
           /\ rresp.handler
           /\ rresp.status # StatusTooManyRequests
           /\ rresp.retryAfter = NoHeader

C6_Witness ==
    /\ rresp.global = "failopen"
    /\ rresp.auth = "failopen"
    /\ rresp.handler
    /\ \E c \in Clients :
          /\ counters[GlobalKey(c)] > limits.global.requests
          /\ counters[AuthKey(AuthPath, c)] > limits.auth.requests

(***************************************************************************)
(* Properties of SpecRef                                                   *)
(***************************************************************************)
UnknownCodeRequest ==
    sresp.valid /\ sresp.code # NoCode /\ sresp.owner = NullId

C10_StatusOnlyLeavesPending ==
    [][\A i \in DOMAIN referrals :
          referrals'[i].status # referrals[i].status =>
              /\ referrals[i].status = "pending"
              /\ referrals'[i].status \in {"paid", "rejected"}]_vars

(***************************************************************************)
(* Payouts: PayoutRepository and AdminHandler.UpdatePayoutStatus           *)
(***************************************************************************)
MaxPayouts == 2

PayoutStatusPending == "pending"
PayoutStatusApproved == "approved"
PayoutStatusRejected == "rejected"

\* CHECK (status IN ('pending', 'approved', 'rejected'))
PayoutStatuses == {PayoutStatusPending, PayoutStatusApproved, PayoutStatusRejected}

\* NULL in paid_at and in approved_by.
NullTime == -1
NullAdmin == ""

\* The admins whose claims.UserID reaches the handler.
PayAdmins == {"a1", "a2"}

ErrPayoutNotFound == "payout not found"

\* PayoutRepository.Create: INSERT (id, user_id, amount, status); approved_by and
\* paid_at are left NULL.
PayoutCreate(rows, userID, amount, status, dbOK) ==
    IF ~dbOK \/ status \notin PayoutStatuses
    THEN [err |-> DbError, rows |-> rows]
    ELSE [err |-> NoErr,
          rows |-> Append(rows, [user |-> userID, amount |-> amount, status |-> status,
                                 approvedBy |-> NullAdmin, paidAt |-> NullTime])]

\* PayoutRepository.UpdateStatus:
\* UPDATE payouts SET status = $2, approved_by = $3,
\*   paid_at = CASE WHEN $2 = 'approved' THEN NOW() ELSE paid_at END WHERE id = $1
PayoutUpdateStatus(rows, id, status, approvedBy, t, dbOK) ==
    IF ~dbOK THEN [err |-> DbError, rows |-> rows]
    ELSE IF id \notin DOMAIN rows THEN [err |-> ErrPayoutNotFound, rows |-> rows]
    ELSE IF status \notin PayoutStatuses THEN [err |-> DbError, rows |-> rows]
    ELSE [err |-> NoErr,
          rows |-> [rows EXCEPT ![id] =
                      [@ EXCEPT !.status = status,
                                !.approvedBy = approvedBy,
                                !.paidAt = IF status = PayoutStatusApproved THEN t ELSE @]]]

\* AdminHandler.UpdatePayoutStatus; the body's status goes to the repository as decoded.
UpdatePayoutStatusOutcome(rows, idOK, id, decodes, status, admin, t, dbOK) ==
    IF ~idOK THEN [rows |-> rows, status |-> StatusBadRequest, error |-> "invalid payout ID"]
    ELSE IF ~decodes
    THEN [rows |-> rows, status |-> StatusBadRequest, error |-> "invalid request body"]
    ELSE LET r == PayoutUpdateStatus(rows, id, status, admin, t, dbOK) IN
         IF r.err = ErrPayoutNotFound
         THEN [rows |-> rows, status |-> StatusNotFound, error |-> "payout not found"]
         ELSE IF r.err # NoErr
         THEN [rows |-> rows, status |-> StatusInternalServerError,
               error |-> "failed to update payout"]
         ELSE [rows |-> r.rows, status |-> StatusOK, error |-> ""]

(***************************************************************************)
(* SpecPay: payouts are requested, admins set their status.                *)
(* UpdatePayoutStatus is taken as already past Authenticate and            *)
(* RequireRole(admin).                                                     *)
(***************************************************************************)
PayoutIds == 1..(MaxPayouts + 1)

\* Status values an admin may put in the body of UpdatePayoutStatus.
PayoutBodyStatuses == PayoutStatuses \cup {"", "paid"}

NoPResp == [status |-> 0, id |-> 0, admin |-> NullAdmin, body |-> ""]

InitPay ==
    /\ payouts = <<>>
    /\ presp = NoPResp
    /\ now = 0
    /\ jwt = <<>>
    /\ issued = {}
    /\ resp = <<>>
    /\ limits = <<>>
    /\ counters = <<>>
    /\ ttls = <<>>
    /\ hits = <<>>
    /\ renewed = {}
    /\ rresp = <<>>
    /\ variant = ""
    /\ users = {}
    /\ referrals = <<>>
    /\ origin = <<>>
    /\ registered = 0
    /\ sresp = <<>>
    /\ passwords = <<>>
    /\ tokens = {}
    /\ minted = 0
    /\ inflight = <<>>
    /\ uses = <<>>
    /\ storeFailed = FALSE
    /\ fresp = <<>>
    /\ accounts = {}
    /\ regs = <<>>
    /\ regFailed = FALSE
    /\ enrolled = <<>>
    /\ members = {}
    /\ handler = <<>>
    /\ mails = <<>>
    /\ mresp = <<>>
    /\ pagein = <<>>
    /\ pageout = <<>>
    /\ ledger = <<>>
    /\ aresp = <<>>
    /\ profile = <<>>
    /\ edits = <<>>
    /\ lstore = <<>>
    /\ lcfg = <<>>
    /\ lconns = <<>>
    /\ epoch = 0
    /\ lfailed = FALSE
    /\ blocked = <<>>
    /\ held = {}
    /\ bnow = 0
    /\ bresp = <<>>

\* A withdrawal request is stored, pending.
CreatePayout ==
    /\ Len(payouts) < MaxPayouts
    /\ \E dbOK \in BOOLEAN :
          payouts' = PayoutCreate(payouts, "u1", 10000, PayoutStatusPending, dbOK).rows
    /\ UNCHANGED <<presp, notPayVars>>

\* Requests to UpdatePayoutStatus: the well-formed ones, and one for each way of
\* failing before or in the store.
PayoutUpdateRequests ==
    [idOK : {TRUE}, id : PayoutIds, decodes : {TRUE}, status : PayoutBodyStatuses,
     admin : PayAdmins, dbOK : {TRUE}]
    \cup
    { [idOK |-> FALSE, id |-> 1, decodes |-> TRUE, status |-> PayoutStatusApproved,
       admin |-> "a1", dbOK |-> TRUE],
      [idOK |-> TRUE, id |-> 1, decodes |-> FALSE, status |-> "",
       admin |-> "a1", dbOK |-> TRUE],
      [idOK |-> TRUE, id |-> 1, decodes |-> TRUE, status |-> PayoutStatusApproved,
       admin |-> "a1", dbOK |-> FALSE] }

\* PATCH /api/v1/admin/payouts/{id}
UpdatePayoutStatus ==
    /\ \E q \in PayoutUpdateRequests :
          LET r == UpdatePayoutStatusOutcome(payouts, q.idOK, q.id, q.decodes, q.status,
                                             q.admin, now, q.dbOK)
          IN  /\ payouts' = r.rows
              /\ presp' = [status |-> r.status, id |-> q.id, admin |-> q.admin,
                           body |-> q.status]
    /\ UNCHANGED notPayVars

NextPay ==
    \/ CreatePayout
    \/ UpdatePayoutStatus

SpecPay == InitPay /\ [][NextPay]_vars

(***************************************************************************)
(* Properties of SpecPay                                                   *)
(***************************************************************************)
\* C11 as stated: a payout's status changes only from pending, and only to
\* approved or rejected; an approved or rejected payout keeps its status.
C11_PayoutStatusOneWay ==
    [][\A i \in DOMAIN payouts :
          payouts'[i].status # payouts[i].status =>
              /\ payouts[i].status = PayoutStatusPending
              /\ payouts'[i].status \in {PayoutStatusApproved, PayoutStatusRejected}]_vars

\* The last status update that succeeded left the acting admin in approved_by.
ApprovedByIsActingAdmin ==
    (presp.status = StatusOK /\ presp.id \in DOMAIN payouts) =>
        payouts[presp.id].approvedBy = presp.admin

\* C12 as stated: a payout has a paid_at only if its status is approved, and each
\* status update records the acting admin in approved_by.
C12_PaidAtOnlyWhenApproved ==
    /\ \A i \in DOMAIN payouts :
          payouts[i].paidAt # NullTime => payouts[i].status = PayoutStatusApproved
    /\ ApprovedByIsActingAdmin

(***************************************************************************)
(* Password reset: ResetTokenRepository, AuthHandler.ForgotPassword and    *)
(* AuthHandler.ResetPassword.  A handler runs one store statement at a     *)
(* time; requests on different connections interleave between statements.  *)
(***************************************************************************)
MaxTokens == 2

\* time.Hour, the lifetime ForgotPassword gives a token, in clock units.
ResetExpiry == 1

ErrTokenNotFound == "token not found"
ErrTokenExpired == "token expired"

ResetAccounts == {"u1", "u2"}
ResetUsers == {"u1"}
EmailOf(u) == u \o "@example.com"
ResetEmails == {EmailOf(u) : u \in ResetAccounts}

\* UserRepository.GetByEmail over the accounts that exist.
GetByEmail(existing, email, dbOK) ==
    IF ~dbOK THEN [err |-> DbError, user |-> ""]
    ELSE IF \E u \in existing : EmailOf(u) = email
    THEN [err |-> NoErr, user |-> CHOOSE u \in existing : EmailOf(u) = email]
    ELSE [err |-> ErrUserNotFound, user |-> ""]

\* GenerateToken: 32 random bytes in hex; every token is new.
GenerateToken(n) == n + 1

\* ResetTokenRepository.Create, first statement:
\* DELETE FROM password_reset_tokens WHERE user_id = $1 (its error is dropped).
ResetTokenDeleteByUser(rows, userID, dbOK) ==
    IF dbOK THEN {r \in rows : r.user # userID} ELSE rows

\* The password_reset_tokens table takes any row.
ResetTokenRowAccepted(rows, row) == TRUE

\* ResetTokenRepository.Create, second statement: INSERT of the new token,
\* expiring at time.Now().Add(expiry).
ResetTokenInsert(rows, userID, token, t, expiry, dbOK) ==
    LET row == [user |-> userID, token |-> token, exp |-> t + expiry] IN
    IF ~dbOK \/ ~ResetTokenRowAccepted(rows, row)
    THEN [err |-> DbError, rows |-> rows]
    ELSE [err |-> NoErr, rows |-> rows \cup {row}]

\* ResetTokenRepository.GetByToken
GetByToken(rows, token, t, dbOK) ==
    IF ~dbOK THEN [err |-> DbError, user |-> ""]
    ELSE IF ~\E r \in rows : r.token = token THEN [err |-> ErrTokenNotFound, user |-> ""]
    ELSE LET r == CHOOSE x \in rows : x.token = token IN
         IF t > r.exp THEN [err |-> ErrTokenExpired, user |-> ""]
         ELSE [err |-> NoErr, user |-> r.user]

\* ResetTokenRepository.DeleteByToken
DeleteByToken(rows, token, dbOK) ==
    IF dbOK THEN {r \in rows : r.token # token} ELSE rows

\* AuthService.UpdatePassword with UserRepository.UpdatePassword
UpdatePassword(pw, userID, newPassword, dbOK) ==
    IF ~dbOK THEN [err |-> DbError, pw |-> pw]
    ELSE IF userID \notin DOMAIN pw THEN [err |-> ErrUserNotFound, pw |-> pw]
    ELSE [err |-> NoErr, pw |-> [pw EXCEPT ![userID] = newPassword]]

ForgotMessage == "If the email exists, a password reset link will be sent"

\* AuthHandler.ForgotPassword: the response, from what its calls returned.
\* createErr is read only when the lookup found the user.
ForgotPasswordResponse(valid, lookupErr, createErr) ==
    IF ~valid THEN [status |-> StatusBadRequest, message |-> "invalid request"]
    ELSE IF lookupErr # NoErr THEN [status |-> StatusOK, message |-> ForgotMessage]
    ELSE IF createErr # NoErr
    THEN [status |-> StatusInternalServerError, message |-> "failed to create reset token"]
    ELSE [status |-> StatusOK, message |-> ForgotMessage]

\* AuthHandler.ResetPassword: the response, from what its calls returned.
ResetPasswordResponse(valid, tokenErr, updateErr) ==
    IF ~valid THEN [status |-> StatusBadRequest, message |-> "invalid request"]
    ELSE IF tokenErr \in {ErrTokenNotFound, ErrTokenExpired}
    THEN [status |-> StatusBadRequest, message |-> "invalid or expired reset token"]
    ELSE IF tokenErr # NoErr
    THEN [status |-> StatusInternalServerError, message |-> "failed to validate token"]
    ELSE IF updateErr # NoErr
    THEN [status |-> StatusInternalServerError, message |-> "failed to update password"]
    ELSE [status |-> StatusOK, message |-> "Password has been reset successfully"]

(***************************************************************************)
(* SpecReset: two connections serve ForgotPassword and ResetPassword       *)
(* requests statement by statement while the clock advances.               *)
(***************************************************************************)
MaxUses == 2

Conns == {"c1", "c2"}
TokenIds == 1..MaxTokens

\* The new_password a connection submits.
NewPassword(c) == "newpass-" \o c

Idle == [pc |-> "idle", user |-> "", token |-> 0]

NoFResp == [op |-> "", resp |-> [status |-> 0, message |-> ""],
            twin |-> [status |-> 0, message |-> ""]]

\* The accounts of the run that differs only in whether email has an account.
TwinAccounts(existing, email) ==
    {u \in ResetAccounts : (u \in existing) # (EmailOf(u) = email)}

\* The response ForgotPassword gives in that other run, the store behaving alike.
TwinForgot(valid, email, lookupOK, createOK) ==
    ForgotPasswordResponse(valid,
        GetByEmail(TwinAccounts(DOMAIN passwords, email), email, lookupOK).err,
        IF createOK THEN NoErr ELSE DbError)

InitReset ==
    /\ passwords = [u \in ResetUsers |-> "initial-pw"]
    /\ tokens = {}
    /\ minted = 0
    /\ inflight = [c \in Conns |-> Idle]
    /\ uses = [t \in TokenIds |-> 0]
    /\ storeFailed = FALSE
    /\ fresp = NoFResp
    /\ now = 0
    /\ jwt = <<>>
    /\ issued = {}
    /\ resp = <<>>
    /\ limits = <<>>
    /\ counters = <<>>
    /\ ttls = <<>>
    /\ hits = <<>>
    /\ renewed = {}
    /\ rresp = <<>>
    /\ variant = ""
    /\ users = {}
    /\ referrals = <<>>
    /\ origin = <<>>
    /\ registered = 0
    /\ sresp = <<>>
    /\ payouts = <<>>
    /\ presp = <<>>
    /\ accounts = {}
    /\ regs = <<>>
    /\ regFailed = FALSE
    /\ enrolled = <<>>
    /\ members = {}
    /\ handler = <<>>
    /\ mails = <<>>
    /\ mresp = <<>>
    /\ pagein = <<>>
    /\ pageout = <<>>
    /\ ledger = <<>>
    /\ aresp = <<>>
    /\ profile = <<>>
    /\ edits = <<>>
    /\ lstore = <<>>
    /\ lcfg = <<>>
    /\ lconns = <<>>
    /\ epoch = 0
    /\ lfailed = FALSE
    /\ blocked = <<>>
    /\ held = {}
    /\ bnow = 0
    /\ bresp = <<>>

\* Bodies and store behaviours of a ForgotPassword request up to its lookup;
\* createOK is how the token insert fares in the run where the account exists.
ForgotRequests ==
    {[valid |-> FALSE, email |-> EmailOf("u1"), lookupOK |-> TRUE, createOK |-> TRUE]}
    \cup [valid : {TRUE}, email : ResetEmails, lookupOK : {TRUE}, createOK : BOOLEAN]
    \cup [valid : {TRUE}, email : ResetEmails, lookupOK : {FALSE}, createOK : {TRUE}]

\* ForgotPassword up to and including userRepo.GetByEmail.
ForgotPasswordBegin(c) ==
    /\ inflight[c].pc = "idle"
    /\ \E q \in ForgotRequests :
          LET lookup == GetByEmail(DOMAIN passwords, q.email, q.lookupOK)
              answer == ForgotPasswordResponse(q.valid, lookup.err, NoErr)
          IN IF q.valid /\ lookup.err = NoErr
             THEN /\ q.createOK
                  /\ inflight' = [inflight EXCEPT ![c] = [Idle EXCEPT !.pc = "delete", !.user = lookup.user]]
                  /\ UNCHANGED <<fresp, storeFailed>>
             ELSE /\ inflight' = [inflight EXCEPT ![c] = Idle]
                  /\ fresp' = [op |-> "forgot", resp |-> answer,
                               twin |-> TwinForgot(q.valid, q.email, q.lookupOK, q.createOK)]
                  /\ storeFailed' = (storeFailed \/ ~q.lookupOK)
    /\ UNCHANGED <<passwords, tokens, minted, uses, notResetVars>>

\* ResetTokenRepository.Create: the DELETE of the user's tokens.
ForgotPasswordDelete(c) ==
    /\ inflight[c].pc = "delete"
    /\ \E dbOK \in BOOLEAN :
          /\ tokens' = ResetTokenDeleteByUser(tokens, inflight[c].user, dbOK)
          /\ storeFailed' = (storeFailed \/ ~dbOK)
    /\ inflight' = [inflight EXCEPT ![c].pc = "insert"]
    /\ UNCHANGED <<passwords, minted, uses, fresp, notResetVars>>

\* ResetTokenRepository.Create: GenerateToken and the INSERT; then the response.
ForgotPasswordInsert(c) ==
    /\ inflight[c].pc = "insert"
    /\ minted < MaxTokens
    /\ \E dbOK \in BOOLEAN :
          LET r == inflight[c]
              token == GenerateToken(minted)
              ins == ResetTokenInsert(tokens, r.user, token, now, ResetExpiry, dbOK)
          IN /\ tokens' = ins.rows
             /\ minted' = token
             /\ storeFailed' = (storeFailed \/ ~dbOK)
             /\ fresp' = [op |-> "forgot",
                          resp |-> ForgotPasswordResponse(TRUE, NoErr, ins.err),
                          twin |-> TwinForgot(TRUE, EmailOf(r.user), TRUE, dbOK)]
    /\ inflight' = [inflight EXCEPT ![c] = Idle]
    /\ UNCHANGED <<passwords, uses, notResetVars>>

\* ResetPassword up to and including resetTokenRepo.GetByToken.
ResetPasswordBegin(c) ==
    /\ inflight[c].pc = "idle"
    /\ \E valid \in BOOLEAN, token \in TokenIds, dbOK \in BOOLEAN :
          /\ ~valid => (dbOK /\ token = 1)
          /\ LET got == GetByToken(tokens, token, now, dbOK)
                 answer == ResetPasswordResponse(valid, got.err, NoErr)
             IN IF valid /\ got.err = NoErr
                THEN /\ inflight' = [inflight EXCEPT ![c] = [pc |-> "update", user |-> got.user, token |-> token]]
                     /\ UNCHANGED <<fresp, storeFailed>>
                ELSE /\ inflight' = [inflight EXCEPT ![c] = Idle]
                     /\ fresp' = [op |-> "reset", resp |-> answer, twin |-> answer]
                     /\ storeFailed' = (storeFailed \/ (valid /\ ~dbOK))
    /\ UNCHANGED <<passwords, tokens, minted, uses, notResetVars>>

\* ResetPassword: authService.UpdatePassword.
ResetPasswordUpdate(c) ==
    /\ inflight[c].pc = "update"
    /\ uses[inflight[c].token] < MaxUses
    /\ \E dbOK \in BOOLEAN :
          LET r == inflight[c]
              upd == UpdatePassword(passwords, r.user, NewPassword(c), dbOK)
              answer == ResetPasswordResponse(TRUE, NoErr, upd.err)
          IN /\ passwords' = upd.pw
             /\ storeFailed' = (storeFailed \/ ~dbOK)
             /\ IF upd.err = NoErr
                THEN /\ uses' = [uses EXCEPT ![r.token] = @ + 1]
                     /\ inflight' = [inflight EXCEPT ![c].pc = "deltoken"]
                     /\ UNCHANGED fresp
                ELSE /\ inflight' = [inflight EXCEPT ![c] = Idle]
                     /\ fresp' = [op |-> "reset", resp |-> answer, twin |-> answer]
                     /\ UNCHANGED uses
    /\ UNCHANGED <<tokens, minted, notResetVars>>

\* ResetPassword: resetTokenRepo.DeleteByToken (its result is dropped), then 200.
ResetPasswordDelete(c) ==
    /\ inflight[c].pc = "deltoken"
    /\ \E dbOK \in BOOLEAN :
          LET answer == ResetPasswordResponse(TRUE, NoErr, NoErr)
          IN /\ tokens' = DeleteByToken(tokens, inflight[c].token, dbOK)
             /\ storeFailed' = (storeFailed \/ ~dbOK)
             /\ fresp' = [op |-> "reset", resp |-> answer, twin |-> answer]
    /\ inflight' = [inflight EXCEPT ![c] = Idle]
    /\ UNCHANGED <<passwords, minted, uses, notResetVars>>

NextReset ==
    \/ \E c \in Conns : ForgotPasswordBegin(c)
    \/ \E c \in Conns : ForgotPasswordDelete(c)
    \/ \E c \in Conns : ForgotPasswordInsert(c)
    \/ \E c \in Conns : ResetPasswordBegin(c)
    \/ \E c \in Conns : ResetPasswordUpdate(c)
    \/ \E c \in Conns : ResetPasswordDelete(c)
    \/ Tick

SpecReset == InitReset /\ [][NextReset]_vars

(***************************************************************************)
(* Properties of SpecReset                                                 *)
(***************************************************************************)
LiveTokens(u) == {r \in tokens : r.user = u /\ now <= r.exp}

\* C13: in every reachable state a user has at most one live reset token,
\* whatever the interleaving of ForgotPassword requests (the store answering
\* every call).
C13_OneLiveTokenPerUser ==
    ~storeFailed => \A u \in ResetAccounts : Cardinality(LiveTokens(u)) <= 1

\* C14: a reset token authorizes at most one successful password update,
\* whatever the interleaving of ResetPassword requests (the store answering
\* every call).
C14_TokenSingleUse ==
    ~storeFailed => \A t \in TokenIds : uses[t] <= 1

\* C15: for a valid email ForgotPassword answers the same, status and
\* message, as in the run that differs only in whether the account exists.
C15_ForgotSameResponse ==
    (fresp.op = "forgot" /\ fresp.resp.status # StatusBadRequest) =>
        fresp.resp = fresp.twin

(***************************************************************************)
(* Concurrent registration: AuthHandler.Register with AuthService.Register *)
(* run one store statement at a time on several connections.               *)
(***************************************************************************)
RegRequests == 2

ErrEmailAlreadyExists == "email already exists"
ErrUserExists == "user already exists"

RegConns == 1..RegRequests
RegEmails == {"a@example.com", "b@example.com"}
RegSuffixes == Suffixes \cup {"4D5E6F"}

\* UserRepository.Create on a users table whose email column is not UNIQUE.
UserCreateNoUniqueEmail(rows, row, dbOK) ==
    IF ~dbOK THEN [err |-> DbError, rows |-> rows]
    ELSE IF ExistsByReferralCode(rows, row.code)
    THEN [err |-> ErrUserExists, rows |-> rows]
    ELSE [err |-> NoErr, rows |-> rows \cup {row}]

\* UserRepository.Create on the users table: email and referral_code are UNIQUE,
\* a violation comes back as ErrUserExists.
UserCreate(rows, row, dbOK) ==
    IF ~dbOK THEN [err |-> DbError, rows |-> rows]
    ELSE IF ExistsByEmail(rows, row.email) \/ ExistsByReferralCode(rows, row.code)
    THEN [err |-> ErrUserExists, rows |-> rows]
    ELSE [err |-> NoErr, rows |-> rows \cup {row}]

\* AuthHandler.Register: the status, from validation and what AuthService.Register returned.
RegisterResponse(valid, err) ==
    IF ~valid THEN StatusBadRequest
    ELSE IF err = ErrEmailAlreadyExists THEN StatusConflict
    ELSE IF err # NoErr THEN StatusInternalServerError
    ELSE StatusCreated

NoReg == [pc |-> "idle", valid |-> TRUE, email |-> "", code |-> NoCode,
          err |-> NoErr, status |-> 0, made |-> FALSE, redrew |-> FALSE]

InitCreg ==
    /\ accounts = {}
    /\ regs = [c \in RegConns |-> NoReg]
    /\ regFailed = FALSE
    /\ now = 0
    /\ jwt = <<>>
    /\ issued = {}
    /\ resp = <<>>
    /\ limits = <<>>
    /\ counters = <<>>
    /\ ttls = <<>>
    /\ hits = <<>>
    /\ renewed = {}
    /\ rresp = <<>>
    /\ variant = ""
    /\ users = {}
    /\ referrals = <<>>
    /\ origin = <<>>
    /\ registered = 0
    /\ sresp = <<>>
    /\ payouts = <<>>
    /\ presp = <<>>
    /\ passwords = <<>>
    /\ tokens = {}
    /\ minted = 0
    /\ inflight = <<>>
    /\ uses = <<>>
    /\ storeFailed = FALSE
    /\ fresp = <<>>
    /\ enrolled = <<>>
    /\ members = {}
    /\ handler = <<>>
    /\ mails = <<>>
    /\ mresp = <<>>
    /\ pagein = <<>>
    /\ pageout = <<>>
    /\ ledger = <<>>
    /\ aresp = <<>>
    /\ profile = <<>>
    /\ edits = <<>>
    /\ lstore = <<>>
    /\ lcfg = <<>>
    /\ lconns = <<>>
    /\ epoch = 0
    /\ lfailed = FALSE
    /\ blocked = <<>>
    /\ held = {}
    /\ bnow = 0
    /\ bresp = <<>>

\* The request ends with the error AuthService.Register returned.
RegisterEnds(c, r, valid, err) ==
    regs' = [regs EXCEPT ![c] = [r EXCEPT !.pc = "done", !.valid = valid, !.err = err,
                                          !.status = RegisterResponse(valid, err)]]

\* Register up to the e-mail pre-check and the first GenerateReferralCode.
RegisterBegin(c) ==
    /\ regs[c].pc = "idle"
    /\ \E valid \in BOOLEAN, email \in RegEmails, suffix \in RegSuffixes, dbOK \in BOOLEAN :
          /\ ~valid => (dbOK /\ suffix \in Suffixes)
          /\ LET r == [regs[c] EXCEPT !.email = email] IN
             IF ~valid THEN RegisterEnds(c, r, FALSE, NoErr) /\ UNCHANGED regFailed
             ELSE IF ~dbOK THEN RegisterEnds(c, r, TRUE, DbError) /\ regFailed' = TRUE
             ELSE IF ExistsByEmail(accounts, email)
             THEN RegisterEnds(c, r, TRUE, ErrEmailAlreadyExists) /\ UNCHANGED regFailed
             ELSE /\ regs' = [regs EXCEPT ![c] = [r EXCEPT !.pc = "code",
                                 !.code = GenerateReferralCode("John Doe", suffix)]]
                  /\ UNCHANGED regFailed
    /\ UNCHANGED <<accounts, notCregVars>>

\* One turn of the referral-code loop: ExistsByReferralCode, then leave or
\* redraw; suffix is the draw of GenerateReferralCode when the loop goes round.
RegisterCheckCodeWith(c, suffix, dbOK) ==
    /\ regs[c].pc = "code"
    /\ LET r == regs[c] IN
       IF ~dbOK THEN suffix \in Suffixes /\ RegisterEnds(c, r, TRUE, DbError) /\ regFailed' = TRUE
       ELSE IF ExistsByReferralCode(accounts, r.code)
       THEN /\ regs' = [regs EXCEPT ![c].code = GenerateReferralCode("John Doe", suffix),
                                    ![c].redrew = TRUE]
            /\ UNCHANGED regFailed
       ELSE /\ suffix \in Suffixes
            /\ regs' = [regs EXCEPT ![c].pc = "insert"]
            /\ UNCHANGED regFailed
    /\ UNCHANGED <<accounts, notCregVars>>

RegisterCheckCode(c) ==
    \E suffix \in RegSuffixes, dbOK \in BOOLEAN : RegisterCheckCodeWith(c, suffix, dbOK)

\* userRepo.Create, the tokens and the response.
RegisterInsert(c) ==
    /\ regs[c].pc = "insert"
    /\ \E dbOK \in BOOLEAN :
          LET r == regs[c]
              ins == UserCreate(accounts, [email |-> r.email, code |-> r.code], dbOK)
          IN /\ accounts' = ins.rows
             /\ regFailed' = (regFailed \/ ~dbOK)
             /\ RegisterEnds(c, [r EXCEPT !.made = (ins.err = NoErr)], TRUE, ins.err)
    /\ UNCHANGED notCregVars

NextCreg ==
    \/ \E c \in RegConns : RegisterBegin(c)
    \/ \E c \in RegConns : RegisterCheckCode(c)
    \/ \E c \in RegConns : RegisterInsert(c)

SpecCreg == InitCreg /\ [][NextCreg]_vars

(***************************************************************************)
(* Properties of SpecCreg                                                  *)
(***************************************************************************)
Started == {c \in RegConns : regs[c].pc # "idle"}
Done == {c \in RegConns : regs[c].pc = "done"}

\* The scenario of one e-mail registered several times with valid payloads.
SameEmailScenario ==
    /\ ~regFailed
    /\ \A c \in Started : regs[c].valid
    /\ \A c, d \in Started : regs[c].email = regs[d].email

\* C16: when the same email is registered concurrently, exactly one request
\* succeeds with 201 and creates a user, every other request gets 409 or 500
\* and creates no user, and no two users share an email.
C16_OneWinnerPerEmail ==
    /\ \A u, v \in accounts : u.email = v.email => u = v
    /\ \A c \in Done : regs[c].made <=> regs[c].status = StatusCreated
    /\ (SameEmailScenario /\ Done # {}) =>
          /\ Cardinality({c \in Done : regs[c].status = StatusCreated}) = 1
          /\ \A c \in Done : regs[c].status \in {StatusCreated, StatusConflict, StatusInternalServerError}
          /\ Cardinality(accounts) = 1

\* Every request of the scenario has ended: one got 201 and another, having
\* lost the race between pre-check and insert, 500.
C16_Witness ==
    /\ SameEmailScenario
    /\ Done = RegConns
    /\ \E c, d \in Done : regs[c].status = StatusCreated /\ regs[d].status = StatusInternalServerError

\* C17: a registration refused as a duplicate, by the pre-check or by the
\* insert's unique constraint, is answered 409 and stores nothing.
C17_DuplicateIs409 ==
    \A c \in Done :
        regs[c].err \in {ErrEmailAlreadyExists, ErrUserExists} =>
            (regs[c].status = StatusConflict /\ ~regs[c].made)

\* C18: valid registrations with pairwise distinct emails all succeed, and the
\* users created hold non-empty, pairwise distinct referral codes.
C18_DistinctEmailsAllSucceed ==
    /\ \A u, v \in accounts : u.code = v.code => u = v
    /\ \A u \in accounts : u.code # NoCode
    /\ (/\ ~regFailed
        /\ \A c \in Started : regs[c].valid
        /\ \A c, d \in Started : c # d => regs[c].email # regs[d].email)
       => \A c \in Done : regs[c].status = StatusCreated

(***************************************************************************)
(* Notifications: RegisterStudent and Register start their e-mails with go *)
(* statements after persisting and before writing the response; each       *)
(* e-mail then runs EmailService.SendEmail on its own.                     *)
(***************************************************************************)
MaxMailRequests == 1

\* EmailService.SendEmail: skipped without SMTP credentials, logged when
\* smtp.SendMail fails; nil is returned in every case.
SendEmail(configured, smtpOK) ==
    [err |-> NoErr,
     state |-> IF ~configured THEN "skipped" ELSE IF smtpOK THEN "sent" ELSE "failed"]

\* The e-mails RegisterStudent starts for a persisted registration.
StudentMails(referred) ==
    IF referred
    THEN <<"SendStudentConfirmation", "SendReferralNotification", "SendAdminNewStudentAlert">>
    ELSE <<"SendStudentConfirmation", "SendAdminNewStudentAlert">>

\* A handler that joins its e-mails before responding.
RespondReadyJoins(states) == "queued" \notin states

\* respondJSON follows the go statements at once: the handler waits for no e-mail.
RespondReady(states) == TRUE

Queue(kinds, n) == [i \in 1..Len(kinds) |-> [kind |-> kinds[i], request |-> n, state |-> "queued"]]

NoMResp == [kind |-> "", request |-> 0, status |-> 0, body |-> NoBody, states |-> {}]
NoHandler == [pc |-> "idle", pending |-> NoMResp]

InitMail ==
    /\ enrolled = <<>>
    /\ members = {AdminUser("1A2B3C")}
    /\ handler = NoHandler
    /\ mails = <<>>
    /\ mresp = NoMResp
    /\ now = 0
    /\ jwt = <<>>
    /\ issued = {}
    /\ resp = <<>>
    /\ limits = <<>>
    /\ counters = <<>>
    /\ ttls = <<>>
    /\ hits = <<>>
    /\ renewed = {}
    /\ rresp = <<>>
    /\ variant = ""
    /\ users = {}
    /\ referrals = <<>>
    /\ origin = <<>>
    /\ registered = 0
    /\ sresp = <<>>
    /\ payouts = <<>>
    /\ presp = <<>>
    /\ passwords = <<>>
    /\ tokens = {}
    /\ minted = 0
    /\ inflight = <<>>
    /\ uses = <<>>
    /\ storeFailed = FALSE
    /\ fresp = <<>>
    /\ accounts = {}
    /\ regs = <<>>
    /\ regFailed = FALSE
    /\ pagein = <<>>
    /\ pageout = <<>>
    /\ ledger = <<>>
    /\ aresp = <<>>
    /\ profile = <<>>
    /\ edits = <<>>
    /\ lstore = <<>>
    /\ lcfg = <<>>
    /\ lconns = <<>>
    /\ epoch = 0
    /\ lfailed = FALSE
    /\ blocked = <<>>
    /\ held = {}
    /\ bnow = 0
    /\ bresp = <<>>

Served == IF mresp = NoMResp THEN 0 ELSE mresp.request

\* The states of the e-mails request n started.
StatesOf(n) == {mails[i].state : i \in {j \in DOMAIN mails : mails[j].request = n}}

\* RegisterStudent up to its go statements; a refused request is answered at once.
StudentPersist ==
    /\ handler.pc = "idle"
    /\ Served < MaxMailRequests
    /\ \E v \in Variants, req \in StudentRequests(members), store \in StoreCases :
          LET r == RegisterStudentOutcome(v, members, enrolled, req, store.lookupOK, store.createOK)
              answer == [kind |-> "student", request |-> Served + 1, status |-> r.status,
                         body |-> r.body, states |-> {}]
          IN /\ enrolled' = r.rows
             /\ IF r.status = StatusCreated
                THEN /\ mails' = mails \o Queue(StudentMails(r.body.referral = "applied"), Served + 1)
                     /\ handler' = [pc |-> "respond", pending |-> answer]
                     /\ UNCHANGED mresp
                ELSE /\ mresp' = answer
                     /\ UNCHANGED <<mails, handler>>
    /\ UNCHANGED <<members, notMailVars>>

\* Register up to its go statement; a refused request is answered at once.
UserPersist ==
    /\ handler.pc = "idle"
    /\ Served < MaxMailRequests
    /\ \E valid \in BOOLEAN, email \in Emails, dbOK \in BOOLEAN :
          LET r == RegisterOutcome(members, valid, email, "John Doe", "1A2B3C", dbOK)
              answer == [kind |-> "user", request |-> Served + 1, status |-> r.status,
                         body |-> [NoBody EXCEPT !.message = email], states |-> {}]
          IN /\ ~valid => dbOK
             /\ members' = r.users
             /\ IF r.status = StatusCreated
                THEN /\ mails' = mails \o Queue(<<"SendWelcomeEmail">>, Served + 1)
                     /\ handler' = [pc |-> "respond", pending |-> answer]
                     /\ UNCHANGED mresp
                ELSE /\ mresp' = answer
                     /\ UNCHANGED <<mails, handler>>
    /\ UNCHANGED <<enrolled, notMailVars>>

\* respondJSON of a persisted registration.
Respond ==
    /\ handler.pc = "respond"
    /\ RespondReady(StatesOf(handler.pending.request))
    /\ mresp' = [handler.pending EXCEPT !.states = StatesOf(handler.pending.request)]
    /\ handler' = NoHandler
    /\ UNCHANGED <<enrolled, members, mails, notMailVars>>

\* One started e-mail runs SendEmail; its return value goes nowhere.
Deliver ==
    /\ \E i \in DOMAIN mails, configured \in BOOLEAN, smtpOK \in BOOLEAN :
          /\ mails[i].state = "queued"
          /\ ~configured => smtpOK
          /\ mails' = [mails EXCEPT ![i].state = SendEmail(configured, smtpOK).state]
    /\ UNCHANGED <<enrolled, members, handler, mresp, notMailVars>>

NextMail ==
    \/ StudentPersist
    \/ UserPersist
    \/ Respond
    \/ Deliver

SpecMail == InitMail /\ [][NextMail]_vars

(***************************************************************************)
(* Properties of SpecMail                                                  *)
(***************************************************************************)
\* C19: a registration that was persisted is answered 201 with the body
\* decided at persistence, whatever has become of its e-mails (sent, failed,
\* skipped, still queued), and the handler can always respond without
\* waiting for them; the rows stay as persisted.
C19_NotificationsDecoupled ==
    /\ handler.pc = "respond" =>
          /\ ENABLED Respond
          /\ handler.pending.status = StatusCreated
    /\ (mresp.kind = "student" /\ mresp.states # {}) =>
          /\ mresp.status = StatusCreated
          /\ mresp.body.message = "Student registered successfully"
          /\ Len(enrolled) >= 1
    /\ (mresp.kind = "user" /\ mresp.states # {}) =>
          /\ mresp.status = StatusCreated
          /\ ExistsByEmail(members, mresp.body.message)

\* A registration answered 201 while one of its e-mails had failed and
\* another had not run yet.
C19_Witness ==
    /\ mresp.status = StatusCreated
    /\ {"failed", "queued"} \subseteq mresp.states

(***************************************************************************)
(* Pagination: AdminHandler.GetReferrals, UserHandler.GetMyReferrals and   *)
(* the other list handlers share one computation of page, per_page and     *)
(* total_pages.  Query values are sequences of characters.                 *)
(***************************************************************************)
MaxTotal == 25

\* The largest int (32-bit build).
IntMax == 2147483647

ErrSyntax == "invalid syntax"
ErrRange == "value out of range"

DigitVal(ch) ==
    CASE ch = "0" -> 0 [] ch = "1" -> 1 [] ch = "2" -> 2 [] ch = "3" -> 3 [] ch = "4" -> 4
      [] ch = "5" -> 5 [] ch = "6" -> 6 [] ch = "7" -> 7 [] ch = "8" -> 8 [] ch = "9" -> 9
      [] OTHER -> -1

RECURSIVE ParseDigits(_, _, _)
ParseDigits(s, i, acc) ==
    IF i > Len(s) THEN [val |-> acc, err |-> NoErr]
    ELSE IF DigitVal(s[i]) < 0 THEN [val |-> 0, err |-> ErrSyntax]
    ELSE IF acc > (IntMax - DigitVal(s[i])) \div 10 THEN [val |-> IntMax, err |-> ErrRange]
    ELSE ParseDigits(s, i + 1, acc * 10 + DigitVal(s[i]))

\* strconv.Atoi: an optional sign and decimal digits; 0 with a syntax error,
\* the nearest int with a range error.
Atoi(s) ==
    IF s = <<>> THEN [val |-> 0, err |-> ErrSyntax]
    ELSE IF s[1] \in {"+", "-"}
    THEN IF Len(s) = 1 THEN [val |-> 0, err |-> ErrSyntax]
         ELSE LET m == ParseDigits(s, 2, 0) IN
              IF s[1] = "+" THEN m
              ELSE IF m.err = ErrRange THEN [val |-> -IntMax - 1, err |-> ErrRange]
              ELSE [val |-> -m.val, err |-> m.err]
    ELSE ParseDigits(s, 1, 0)

\* page, _ := strconv.Atoi(...); if page < 1 { page = 1 }
ClampPage(q) == IF Atoi(q).val < 1 THEN 1 ELSE Atoi(q).val

\* per_page without its upper limit.
ClampPerPageNoUpper(q) == IF Atoi(q).val < 1 THEN 10 ELSE Atoi(q).val

\* perPage, _ := strconv.Atoi(...); if perPage < 1 || perPage > 100 { perPage = 10 }
ClampPerPage(q) == IF Atoi(q).val < 1 \/ Atoi(q).val > 100 THEN 10 ELSE Atoi(q).val

\* totalPages := int(total) / perPage; if int(total)%perPage > 0 { totalPages++ }
TotalPages(total, perPage) ==
    (total \div perPage) + (IF total % perPage > 0 THEN 1 ELSE 0)

NoPage == [status |-> 0, page |-> 0, perPage |-> 0, total |-> 0, totalPages |-> 0]

\* AdminHandler.GetReferrals; listOK is whether referralRepo.ListAll succeeds.
GetReferrals(pageQ, perPageQ, total, listOK) ==
    IF ~listOK THEN [NoPage EXCEPT !.status = StatusInternalServerError]
    ELSE [status |-> StatusOK, page |-> ClampPage(pageQ), perPage |-> ClampPerPage(perPageQ),
          total |-> total, totalPages |-> TotalPages(total, ClampPerPage(perPageQ))]

\* Values of a query parameter: absent, non-numeric, zero, negative, in range,
\* at and past the limits, huge.
QueryValues ==
    { <<>>, <<"a", "b", "c">>, <<"0">>, <<"-", "3">>, <<"1">>, <<"3">>, <<"1", "0">>,
      <<"1", "0", "0">>, <<"1", "0", "1">>,
      <<"9", "9", "9", "9", "9", "9", "9", "9", "9", "9", "9", "9">>,
      <<"-", "9", "9", "9", "9", "9", "9", "9", "9", "9", "9", "9", "9">> }

InitPage ==
    /\ pagein \in [page : QueryValues, perPage : QueryValues, total : 0..MaxTotal,
                   listOK : BOOLEAN]
    /\ pageout = NoPage
    /\ now = 0
    /\ jwt = <<>>
    /\ issued = {}
    /\ resp = <<>>
    /\ limits = <<>>
    /\ counters = <<>>
    /\ ttls = <<>>
    /\ hits = <<>>
    /\ renewed = {}
    /\ rresp = <<>>
    /\ variant = ""
    /\ users = {}
    /\ referrals = <<>>
    /\ origin = <<>>
    /\ registered = 0
    /\ sresp = <<>>
    /\ payouts = <<>>
    /\ presp = <<>>
    /\ passwords = <<>>
    /\ tokens = {}
    /\ minted = 0
    /\ inflight = <<>>
    /\ uses = <<>>
    /\ storeFailed = FALSE
    /\ fresp = <<>>
    /\ accounts = {}
    /\ regs = <<>>
    /\ regFailed = FALSE
    /\ enrolled = <<>>
    /\ members = {}
    /\ handler = <<>>
    /\ mails = <<>>
    /\ mresp = <<>>
    /\ ledger = <<>>
    /\ aresp = <<>>
    /\ profile = <<>>
    /\ edits = <<>>
    /\ lstore = <<>>
    /\ lcfg = <<>>
    /\ lconns = <<>>
    /\ epoch = 0
    /\ lfailed = FALSE
    /\ blocked = <<>>
    /\ held = {}
    /\ bnow = 0
    /\ bresp = <<>>

ServePage ==
    /\ pageout = NoPage
    /\ pageout' = GetReferrals(pagein.page, pagein.perPage, pagein.total, pagein.listOK)
    /\ UNCHANGED <<pagein, notPageVars>>

NextPage == ServePage

SpecPage == InitPage /\ [][NextPage]_vars

(***************************************************************************)
(* Properties of SpecPage                                                  *)
(***************************************************************************)
\* C20: every paginated response has page >= 1 and 1 <= per_page <= 100,
\* per_page = 10 when none is given, and total_pages is the ceiling of
\* total / per_page, whatever page and per_page were requested.
C20_PageClamped ==
    pageout.status = StatusOK =>
        /\ pageout.page >= 1
        /\ pageout.perPage >= 1 /\ pageout.perPage <= 100
        /\ pagein.perPage = <<>> => pageout.perPage = 10
        /\ pageout.totalPages * pageout.perPage >= pageout.total
        /\ pageout.totalPages >= 0
        /\ pageout.totalPages > 0 => (pageout.totalPages - 1) * pageout.perPage < pageout.total

\* A response to per_page past the limit and a huge page, with a last page
\* that is not full.
C20_Witness ==
    /\ pageout.status = StatusOK
    /\ Atoi(pagein.perPage).val > 100
    /\ Atoi(pagein.page).err = ErrRange
    /\ pageout.total % pageout.perPage > 0
    /\ pageout.totalPages >= 2

(***************************************************************************)
(* Further properties of SpecPay                                           *)
(***************************************************************************)
\* C21: a status-update request whose status is outside the allowed set
\* (payout: approved or rejected) is answered 400, before any repository
\* call.
C21_BadStatusIs400 ==
    (presp.status # 0 /\ presp.body \notin {PayoutStatusApproved, PayoutStatusRejected}) =>
        presp.status = StatusBadRequest

(***************************************************************************)
(* SpecLedger: students register with or without a referrer's code, admins *)
(* mark referrals paid or set their status, referrers read their           *)
(* dashboard.  Admin requests are taken as already past Authenticate and   *)
(* RequireRole(admin); every response is recorded.                         *)
(***************************************************************************)
MaxLedger == 2

RECURSIVE SumEarnings(_, _, _)
SumEarnings(rows, referrerID, status) ==
    IF rows = <<>> THEN 0
    ELSE (IF Head(rows).referrer = referrerID /\ Head(rows).status = status
          THEN Head(rows).earnings ELSE 0)
         + SumEarnings(Tail(rows), referrerID, status)

\* ReferralRepository.GetStatsByReferrer
GetStatsByReferrer(rows, referrerID) ==
    [totalCount |-> Cardinality({i \in DOMAIN rows : rows[i].referrer = referrerID}),
     totalEarnings |-> SumEarnings(rows, referrerID, "paid"),
     pendingEarnings |-> SumEarnings(rows, referrerID, "pending")]

\* UserHandler.GetDashboard of an authenticated user.
GetDashboard(rows, userID) ==
    LET st == GetStatsByReferrer(rows, userID) IN
    [total_earnings |-> st.totalEarnings, pending_balance |-> st.pendingEarnings,
     total_referrals |-> st.totalCount]

\* The referrers: the seeded admin and one registered user.
LedgerUsers ==
    {AdminUser("1A2B3C"),
     [id |-> 2, email |-> "john@example.com", name |-> "John Doe", role |-> RoleUser,
      code |-> GenerateReferralCode("John Doe", "1A2B3C")]}

Referrers == {u.id : u \in LedgerUsers}

LedgerRequests ==
    [decodes : {TRUE}, name : {"Ada Obi"}, emailOK : {TRUE}, phone : {"08012345678"},
     course : Courses, code : {NoCode} \cup CodesOf(LedgerUsers)]

LedgerIds == 1..(MaxLedger + 1)

NoAResp == [op |-> "", id |-> 0, status |-> 0, changed |-> 0]

\* How many rows of a differ from the row of b at the same place.
Changed(a, b) == Cardinality({i \in DOMAIN a : i \notin DOMAIN b \/ a[i] # b[i]})

InitLedger ==
    /\ ledger = <<>>
    /\ aresp = NoAResp
    /\ now = 0
    /\ jwt = <<>>
    /\ issued = {}
    /\ resp = <<>>
    /\ limits = <<>>
    /\ counters = <<>>
    /\ ttls = <<>>
    /\ hits = <<>>
    /\ renewed = {}
    /\ rresp = <<>>
    /\ variant = ""
    /\ users = {}
    /\ referrals = <<>>
    /\ origin = <<>>
    /\ registered = 0
    /\ sresp = <<>>
    /\ payouts = <<>>
    /\ presp = <<>>
    /\ passwords = <<>>
    /\ tokens = {}
    /\ minted = 0
    /\ inflight = <<>>
    /\ uses = <<>>
    /\ storeFailed = FALSE
    /\ fresp = <<>>
    /\ accounts = {}
    /\ regs = <<>>
    /\ regFailed = FALSE
    /\ enrolled = <<>>
    /\ members = {}
    /\ handler = <<>>
    /\ mails = <<>>
    /\ mresp = <<>>
    /\ pagein = <<>>
    /\ pageout = <<>>
    /\ profile = <<>>
    /\ edits = <<>>
    /\ lstore = <<>>
    /\ lcfg = <<>>
    /\ lconns = <<>>
    /\ epoch = 0
    /\ lfailed = FALSE
    /\ blocked = <<>>
    /\ held = {}
    /\ bnow = 0
    /\ bresp = <<>>

\* POST /api/v1/students/register
LedgerRegisterStudent ==
    /\ Len(ledger) < MaxLedger
    /\ \E req \in LedgerRequests, createOK \in BOOLEAN :
          LET r == RegisterStudentOutcome("percent", LedgerUsers, ledger, req, TRUE, createOK)
          IN /\ ledger' = r.rows
             /\ aresp' = [op |-> "RegisterStudent", id |-> Len(r.rows), status |-> r.status,
                          changed |-> Changed(r.rows, ledger)]
    /\ UNCHANGED notLedgerVars

\* POST /api/v1/admin/referrals/{id}/paid
LedgerMarkReferralPaid ==
    /\ \E idOK \in BOOLEAN, id \in LedgerIds, dbOK \in BOOLEAN :
          /\ ~idOK => (dbOK /\ id = 1)
          /\ LET r == MarkReferralPaidOutcome(ledger, idOK, id, dbOK)
             IN /\ ledger' = r.rows
                /\ aresp' = [op |-> "MarkReferralPaid", id |-> id, status |-> r.status,
                             changed |-> Changed(r.rows, ledger)]
    /\ UNCHANGED notLedgerVars

\* POST /api/v1/admin/referrers/{id}/paid
LedgerMarkReferrerPaid ==
    /\ \E idOK \in BOOLEAN, referrerID \in Referrers, dbOK \in BOOLEAN :
          /\ ~idOK => (dbOK /\ referrerID = 1)
          /\ LET r == MarkReferrerPaidOutcome(ledger, idOK, referrerID, dbOK)
             IN /\ ledger' = r.rows
                /\ aresp' = [op |-> "MarkReferrerPaid", id |-> referrerID, status |-> r.status,
                             changed |-> Changed(r.rows, ledger)]
    /\ UNCHANGED notLedgerVars

\* PATCH /api/v1/admin/referrals/{id}/status
LedgerUpdateReferralStatus ==
    /\ \E id \in LedgerIds, status \in BodyStatuses :
          LET r == UpdateReferralStatusOutcome(ledger, TRUE, id, TRUE, status, TRUE)
          IN /\ ledger' = r.rows
             /\ aresp' = [op |-> "UpdateReferralStatus", id |-> id, status |-> r.status,
                          changed |-> Changed(r.rows, ledger)]
    /\ UNCHANGED notLedgerVars

NextLedger ==
    \/ LedgerRegisterStudent
    \/ LedgerMarkReferralPaid
    \/ LedgerMarkReferrerPaid
    \/ LedgerUpdateReferralStatus

SpecLedger == InitLedger /\ [][NextLedger]_vars

(***************************************************************************)
(* Properties of SpecLedger                                                *)
(***************************************************************************)
\* C22: MarkReferralPaid succeeds only for an existing referral whose status
\* is pending; for a referral that does not exist or is already paid it
\* answers 404 and changes nothing.
C22_MarkPaidOnlyPending ==
    [][(aresp'.op = "MarkReferralPaid" /\ aresp'.status \in {StatusOK, StatusNotFound}) =>
          IF aresp'.id \in DOMAIN ledger /\ ledger[aresp'.id].status = "pending"
          THEN aresp'.status = StatusOK /\ ledger'[aresp'.id].status = "paid"
          ELSE aresp'.status = StatusNotFound /\ ledger' = ledger]_vars

\* C23: MarkReferrerPaid(A) sets to paid exactly the referrals with referrer
\* A and status pending, and leaves every other referral as it was; a request
\* that is refused changes nothing.
C23_MarkReferrerPaidFrame ==
    [][aresp'.op = "MarkReferrerPaid" =>
          /\ DOMAIN ledger' = DOMAIN ledger
          /\ \A i \in DOMAIN ledger :
                ledger'[i] =
                    IF aresp'.status = StatusOK /\ ledger[i].referrer = aresp'.id
                       /\ ledger[i].status = "pending"
                    THEN [ledger[i] EXCEPT !.status = "paid"]
                    ELSE ledger[i]]_vars

\* MarkReferrerPaid has paid a referral of one referrer while a direct signup
\* or another referrer's referral stayed pending.
C23_Witness ==
    /\ aresp.op = "MarkReferrerPaid"
    /\ aresp.status = StatusOK
    /\ aresp.changed >= 1
    /\ \E i \in DOMAIN ledger : ledger[i].referrer # aresp.id /\ ledger[i].status = "pending"

\* What paid and pending referrals are worth to a referrer.
Balance(rows, userID) ==
    GetDashboard(rows, userID).total_earnings + GetDashboard(rows, userID).pending_balance

\* C30: for every referrer, MarkReferrerPaid moves the whole pending balance
\* of the dashboard into total_earnings, and the sum of the two changes only
\* when a referred student registers or a referral is rejected.
C30_BalanceMovesOnlyByPayment ==
    [][\A u \in Referrers :
          /\ (aresp'.op = "MarkReferrerPaid" /\ aresp'.status = StatusOK /\ aresp'.id = u) =>
                /\ GetDashboard(ledger', u).pending_balance = 0
                /\ GetDashboard(ledger', u).total_earnings =
                       GetDashboard(ledger, u).total_earnings
                       + GetDashboard(ledger, u).pending_balance
          /\ Balance(ledger', u) # Balance(ledger, u) =>
                \/ aresp'.op = "RegisterStudent" /\ aresp'.status = StatusCreated
                \/ \E i \in DOMAIN ledger :
                      /\ ledger[i].status # "rejected"
                      /\ ledger'[i].status = "rejected"]_vars

(***************************************************************************)
(* SpecProf: UserHandler.UpdateProfile reads the user's row (GetByID),     *)
(* overwrites the provided fields in its copy and writes the copy back     *)
(* (UserRepository.Update).  Each connection serves one request; requests  *)
(* interleave between the read and the write.                              *)
(***************************************************************************)
ProfRequests == 2

ProfileFields == {"name", "phone", "bank_name", "account_number", "account_name"}
ProtectedFields == {"email", "role", "referral_code", "password_hash", "is_blocked"}

\* validate tags of UpdateProfileRequest: name omitempty,min=2
ValidProfileRequest(req) == req.name = "" \/ Len(req.name) >= 2

\* json.Decode into UpdateProfileRequest: keys the struct does not have are dropped.
DecodeProfile(body) == [f \in ProfileFields |-> IF f \in DOMAIN body THEN body[f] ELSE ""]

\* UpdateProfile with every field assigned, empty or not.
ApplyProfileOverwrites(user, req) ==
    [f \in DOMAIN user |-> IF f \in ProfileFields THEN req[f] ELSE user[f]]

\* UpdateProfile: "update only provided fields".
ApplyProfile(user, req) ==
    [f \in DOMAIN user |-> IF f \in ProfileFields /\ req[f] # "" THEN req[f] ELSE user[f]]

\* UserRepository.Update: UPDATE users SET name, phone, bank_name,
\* account_number, account_name WHERE id = $1.
UserUpdate(row, user, dbOK) ==
    IF ~dbOK THEN [err |-> DbError, row |-> row]
    ELSE [err |-> NoErr,
          row |-> [f \in DOMAIN row |-> IF f \in ProfileFields THEN user[f] ELSE row[f]]]

StoredUser ==
    [name |-> "John Doe", phone |-> "0801", bank_name |-> "GTB", account_number |-> "",
     account_name |-> "", email |-> "john@example.com", role |-> RoleUser,
     referral_code |-> "JOH-1A2B3C", password_hash |-> "h1", is_blocked |-> "false"]

\* Bodies sent to PATCH /api/v1/user/profile.
ProfileBodies ==
    { [name |-> "Ann Lee"], [phone |-> "0809"], [name |-> "", phone |-> "0777"],
      [bank_name |-> "UBA", account_number |-> "0123456789", account_name |-> "Ann Lee"],
      [role |-> RoleAdmin], [role |-> RoleAdmin, name |-> "Root", email |-> "x@example.com"],
      [name |-> "A"] }

ProfConns == 1..ProfRequests

NoEdit == [pc |-> "idle", req |-> DecodeProfile(<<>>), user |-> StoredUser,
           seen |-> StoredUser, status |-> 0]

InitProf ==
    /\ profile = StoredUser
    /\ edits = [c \in ProfConns |-> NoEdit]
    /\ now = 0
    /\ jwt = <<>>
    /\ issued = {}
    /\ resp = <<>>
    /\ limits = <<>>
    /\ counters = <<>>
    /\ ttls = <<>>
    /\ hits = <<>>
    /\ renewed = {}
    /\ rresp = <<>>
    /\ variant = ""
    /\ users = {}
    /\ referrals = <<>>
    /\ origin = <<>>
    /\ registered = 0
    /\ sresp = <<>>
    /\ payouts = <<>>
    /\ presp = <<>>
    /\ passwords = <<>>
    /\ tokens = {}
    /\ minted = 0
    /\ inflight = <<>>
    /\ uses = <<>>
    /\ storeFailed = FALSE
    /\ fresp = <<>>
    /\ accounts = {}
    /\ regs = <<>>
    /\ regFailed = FALSE
    /\ enrolled = <<>>
    /\ members = {}
    /\ handler = <<>>
    /\ mails = <<>>
    /\ mresp = <<>>
    /\ pagein = <<>>
    /\ pageout = <<>>
    /\ ledger = <<>>
    /\ aresp = <<>>
    /\ lstore = <<>>
    /\ lcfg = <<>>
    /\ lconns = <<>>
    /\ epoch = 0
    /\ lfailed = FALSE
    /\ blocked = <<>>
    /\ held = {}
    /\ bnow = 0
    /\ bresp = <<>>

\* UpdateProfile up to and including userRepo.GetByID.
UpdateProfileRead(c) ==
    /\ edits[c].pc = "idle"
    /\ \E authed \in BOOLEAN, body \in ProfileBodies, dbOK \in BOOLEAN :
          /\ ~authed => (dbOK /\ body = [name |-> "Ann Lee"])
          /\ LET req == DecodeProfile(body)
                 end(st) == [NoEdit EXCEPT !.pc = "done", !.req = req, !.status = st]
             IN edits' = [edits EXCEPT ![c] =
                   IF ~authed THEN end(StatusUnauthorized)
                   ELSE IF ~ValidProfileRequest(req) THEN end(StatusBadRequest)
                   ELSE IF ~dbOK THEN end(StatusInternalServerError)
                   ELSE [pc |-> "write", req |-> req, user |-> ApplyProfile(profile, req),
                         seen |-> profile, status |-> 0]]
    /\ UNCHANGED <<profile, notProfVars>>

\* UpdateProfile: userRepo.Update and the response.
UpdateProfileWrite(c) ==
    /\ edits[c].pc = "write"
    /\ \E dbOK \in BOOLEAN :
          LET w == UserUpdate(profile, edits[c].user, dbOK) IN
          /\ profile' = w.row
          /\ edits' = [edits EXCEPT ![c].pc = "done",
                          ![c].status = IF w.err = NoErr THEN StatusOK
                                        ELSE StatusInternalServerError]
    /\ UNCHANGED notProfVars

NextProf ==
    \/ \E c \in ProfConns : UpdateProfileRead(c)
    \/ \E c \in ProfConns : UpdateProfileWrite(c)

SpecProf == InitProf /\ [][NextProf]_vars

(***************************************************************************)
(* Properties of SpecProf                                                  *)
(***************************************************************************)
\* The connection whose Update statement this step runs on the row it read.
Writes(c) ==
    /\ edits[c].pc = "write"
    /\ edits'[c].pc = "done"
    /\ edits[c].seen = profile

\* C24: UpdateProfile changes only the fields among name, phone, bank_name,
\* account_number and account_name that the request provides non-empty;
\* omitted or empty fields keep their stored value, and email, role,
\* referral code, password hash and blocked flag never change.
C24_OnlyProvidedFieldsChange ==
    [][/\ \A f \in ProtectedFields : profile'[f] = profile[f]
       /\ \A c \in ProfConns :
             Writes(c) =>
                \A f \in ProfileFields :
                   profile'[f] = IF edits'[c].status = StatusOK /\ edits[c].req[f] # ""
                                 THEN edits[c].req[f]
                                 ELSE profile[f]
       /\ (\A c \in ProfConns : edits[c].pc # "write") => profile' = profile]_vars

\* A request that provided only bank details was answered 200: the stored
\* name and phone are the ones from before.
C24_Witness ==
    \E c \in ProfConns :
        /\ edits[c].pc = "done" /\ edits[c].status = StatusOK
        /\ edits[c].req.name = "" /\ edits[c].req.bank_name = "UBA"
        /\ profile.bank_name = "UBA" /\ profile.name = "John Doe" /\ profile.phone = "0801"
        /\ profile.role = RoleUser

\* C29: two concurrent UpdateProfile requests of one user that provide
\* disjoint fields both take effect: once both are answered 200 the stored
\* profile holds each request's provided values.
C29_DisjointUpdatesBothApply ==
    \A c, d \in ProfConns :
        (/\ c # d
         /\ \A x \in ProfConns : edits[x].pc = "done"
         /\ \A x \in ProfConns \ {c, d} : edits[x].status # StatusOK
         /\ edits[c].status = StatusOK /\ edits[d].status = StatusOK
         /\ \A f \in ProfileFields : edits[c].req[f] = "" \/ edits[d].req[f] = "")
        => \A f \in ProfileFields :
              /\ edits[c].req[f] # "" => profile[f] = edits[c].req[f]
              /\ edits[d].req[f] # "" => profile[f] = edits[d].req[f]

(***************************************************************************)
(* SpecCregFair: concurrent registration where the store answers a loop    *)
(* turn that keeps being asked, and a referral-code loop that keeps going  *)
(* round eventually draws each suffix (fair random generation).  A turn    *)
(* whose store call fails is never forced.                                 *)
(***************************************************************************)
SpecCregFair ==
    /\ SpecCreg
    /\ \A c \in RegConns, suffix \in RegSuffixes :
          SF_vars(RegisterCheckCodeWith(c, suffix, TRUE))

\* Every code the name's prefix can get belongs to a stored user.
AllCodesUsed ==
    \A suffix \in RegSuffixes :
        \E u \in accounts : u.code = Prefix("John Doe") \o "-" \o suffix

\* C25: the referral-code loop of Register terminates while an unused code
\* is left, and a request leaves it for the insert only with a code no
\* stored user had at the check.
C25_CodeLoopTerminates ==
    /\ \A c \in RegConns :
          (regs[c].pc = "code") ~> (regs[c].pc # "code" \/ AllCodesUsed)
    /\ [][\A c \in RegConns :
             (regs[c].pc = "code" /\ regs'[c].pc = "insert") =>
                 ~ExistsByReferralCode(accounts, regs'[c].code)]_vars

\* A registration went round the loop after a collision and was created.
C25_Witness ==
    \E c \in RegConns :
        regs[c].redrew /\ regs[c].pc = "done" /\ regs[c].status = StatusCreated

(***************************************************************************)
(* SpecLim: concurrent requests through RateLimiter.Limit on one key.      *)
(* Each request runs Incr, then Expire when its count is 1, then the       *)
(* comparison with the limit; other requests and the store's clock run in  *)
(* between.                                                                *)
(***************************************************************************)
LimRequests == 3

LimConns == 1..LimRequests

LimKey == GlobalKey("10.0.0.1")

NoLimConn == [pc |-> "idle", count |-> 0, win |-> 0, passed |-> FALSE, status |-> 0]

InitLim ==
    /\ lstore = [cnt |-> [k \in {LimKey} |-> 0], ttl |-> [k \in {LimKey} |-> 0]]
    /\ lcfg \in LimiterConfigs
    /\ lconns = [c \in LimConns |-> NoLimConn]
    /\ epoch = 0
    /\ lfailed = FALSE
    /\ now = 0
    /\ jwt = <<>>
    /\ issued = {}
    /\ resp = <<>>
    /\ limits = <<>>
    /\ counters = <<>>
    /\ ttls = <<>>
    /\ hits = <<>>
    /\ renewed = {}
    /\ rresp = <<>>
    /\ variant = ""
    /\ users = {}
    /\ referrals = <<>>
    /\ origin = <<>>
    /\ registered = 0
    /\ sresp = <<>>
    /\ payouts = <<>>
    /\ presp = <<>>
    /\ passwords = <<>>
    /\ tokens = {}
    /\ minted = 0
    /\ inflight = <<>>
    /\ uses = <<>>
    /\ storeFailed = FALSE
    /\ fresp = <<>>
    /\ accounts = {}
    /\ regs = <<>>
    /\ regFailed = FALSE
    /\ enrolled = <<>>
    /\ members = {}
    /\ handler = <<>>
    /\ mails = <<>>
    /\ mresp = <<>>
    /\ pagein = <<>>
    /\ pageout = <<>>
    /\ ledger = <<>>
    /\ aresp = <<>>
    /\ profile = <<>>
    /\ edits = <<>>
    /\ blocked = <<>>
    /\ held = {}
    /\ bnow = 0
    /\ bresp = <<>>

\* if int(count) > rl.requests, with a limit one too high
OverLimitLate(count, cfg) == count > cfg.requests + 1

\* if int(count) > rl.requests
OverLimit(count, cfg) == count > cfg.requests

\* count, err := rl.cache.Incr(ctx, key); on an error the request is passed on.
LimitIncr(c) ==
    /\ lconns[c].pc = "idle"
    /\ \E ok \in BOOLEAN :
          LET inc == CacheIncr(lstore, LimKey, ok) IN
          IF inc.err
          THEN /\ lconns' = [lconns EXCEPT ![c] = [@ EXCEPT !.pc = "done", !.passed = TRUE,
                                                            !.status = StatusOK, !.win = epoch]]
               /\ lfailed' = TRUE
               /\ UNCHANGED lstore
          ELSE /\ lstore' = inc.st
               /\ lconns' = [lconns EXCEPT ![c] =
                               [@ EXCEPT !.pc = IF inc.count = 1 THEN "expire" ELSE "check",
                                         !.count = inc.count, !.win = epoch]]
               /\ UNCHANGED lfailed
    /\ UNCHANGED <<lcfg, epoch, notLimVars>>

\* if count == 1 { rl.cache.Expire(ctx, key, rl.window) }: the result is dropped.
LimitExpire(c) ==
    /\ lconns[c].pc = "expire"
    /\ \E ok \in BOOLEAN :
          /\ lstore' = CacheExpire(lstore, LimKey, lcfg.window, ok)
          /\ lfailed' = (lfailed \/ ~ok)
    /\ lconns' = [lconns EXCEPT ![c].pc = "check"]
    /\ UNCHANGED <<lcfg, epoch, notLimVars>>

\* The request stops between the increment and the Expire call.
LimitStop(c) ==
    /\ lconns[c].pc = "expire"
    /\ lconns' = [lconns EXCEPT ![c].pc = "stopped"]
    /\ lfailed' = TRUE
    /\ UNCHANGED <<lstore, lcfg, epoch, notLimVars>>

\* The comparison with the limit: 429, or next.ServeHTTP.
LimitCheck(c) ==
    /\ lconns[c].pc = "check"
    /\ lconns' = [lconns EXCEPT ![c] =
                    IF OverLimit(lconns[c].count, lcfg)
                    THEN [@ EXCEPT !.pc = "done", !.status = StatusTooManyRequests]
                    ELSE [@ EXCEPT !.pc = "done", !.status = StatusOK, !.passed = TRUE]]
    /\ UNCHANGED <<lstore, lcfg, epoch, lfailed, notLimVars>>

\* One tick of the store's clock: the time to live runs down, and the key is
\* gone when it is up.
LimitTick ==
    /\ lstore.ttl[LimKey] > 0
    /\ IF lstore.ttl[LimKey] = 1
       THEN /\ lstore' = [cnt |-> [k \in {LimKey} |-> 0], ttl |-> [k \in {LimKey} |-> 0]]
            /\ epoch' = epoch + 1
       ELSE /\ lstore' = [lstore EXCEPT !.ttl[LimKey] = @ - 1]
            /\ UNCHANGED epoch
    /\ UNCHANGED <<lcfg, lconns, lfailed, notLimVars>>

NextLim ==
    \/ \E c \in LimConns : LimitIncr(c)
    \/ \E c \in LimConns : LimitExpire(c)
    \/ \E c \in LimConns : LimitStop(c)
    \/ \E c \in LimConns : LimitCheck(c)
    \/ LimitTick

SpecLim == InitLim /\ [][NextLim]_vars

\* The requests counted in key lifetime e that were passed to the next handler.
PassedIn(e) == {c \in LimConns : lconns[c].passed /\ lconns[c].win = e}

\* C26: while no store call has failed, at most N of the requests counted on
\* one key in one window are passed to the next handler, whatever the
\* interleaving.
C26_AtMostNPerWindow ==
    ~lfailed => \A e \in 0..LimRequests : Cardinality(PassedIn(e)) <= lcfg.requests

\* A request was rejected while the first request of its window had not yet
\* set the time to live, and N requests of that window were passed.
C26_Witness ==
    /\ ~lfailed
    /\ \E c1, c2 \in LimConns :
          /\ lconns[c1].pc = "done" /\ lconns[c1].status = StatusTooManyRequests
          /\ lconns[c2].pc = "expire" /\ lconns[c2].win = lconns[c1].win
    /\ \E e \in 0..LimRequests : Cardinality(PassedIn(e)) = lcfg.requests
    /\ \E c \in LimConns : lconns[c].win > 0

\* C27: a counter that holds 1 or more and has no Expire call pending has a
\* time to live, in every execution.
C27_CounterHasTTL ==
    (\A c \in LimConns : lconns[c].pc # "expire") =>
        (lstore.cnt[LimKey] >= 1 => lstore.ttl[LimKey] >= 1)

(***************************************************************************)
(* SpecBlock: Login, RefreshToken and the administrator's BlockUser.       *)
(***************************************************************************)
ErrInvalidCredentials == "invalid email or password"
ErrUserBlocked == "user account is blocked"

\* The JWT manager of the deployment: refresh tokens outlive access tokens.
BlockJWT == NewJWTManager("k1", "k2", MaxExpiry, MaxTime)

BlockIds == {a.id : a \in Accounts}

AccountOf(id) == CHOOSE a \in Accounts : a.id = id

\* Ids a BlockUser request may name: the accounts and one no user has.
BlockTargets == BlockIds \cup {"u9"}

NoToken == Token(FALSE, "", "", "", "", "", 0)

NoBResp == [op |-> "", uid |-> "", err |-> NoErr, status |-> 0,
            access |-> NoToken, blocked |-> FALSE]

InitBlock ==
    /\ blocked = [id \in BlockIds |-> FALSE]
    /\ held = {}
    /\ bnow = 0
    /\ bresp = NoBResp
    /\ now = 0
    /\ jwt = <<>>
    /\ issued = {}
    /\ resp = <<>>
    /\ limits = <<>>
    /\ counters = <<>>
    /\ ttls = <<>>
    /\ hits = <<>>
    /\ renewed = {}
    /\ rresp = <<>>
    /\ variant = ""
    /\ users = {}
    /\ referrals = <<>>
    /\ origin = <<>>
    /\ registered = 0
    /\ sresp = <<>>
    /\ payouts = <<>>
    /\ presp = <<>>
    /\ passwords = <<>>
    /\ tokens = {}
    /\ minted = 0
    /\ inflight = <<>>
    /\ uses = <<>>
    /\ storeFailed = FALSE
    /\ fresp = <<>>
    /\ accounts = {}
    /\ regs = <<>>
    /\ regFailed = FALSE
    /\ enrolled = <<>>
    /\ members = {}
    /\ handler = <<>>
    /\ mails = <<>>
    /\ mresp = <<>>
    /\ pagein = <<>>
    /\ pageout = <<>>
    /\ ledger = <<>>
    /\ aresp = <<>>
    /\ profile = <<>>
    /\ edits = <<>>
    /\ lstore = <<>>
    /\ lcfg = <<>>
    /\ lconns = <<>>
    /\ epoch = 0
    /\ lfailed = FALSE

\* AuthService.Login for an email some user has: the blocked flag, then the
\* password, then the two tokens.
Login(isBlocked, acct, passwordOK, t) ==
    IF isBlocked THEN [err |-> ErrUserBlocked, access |-> NoToken, refresh |-> NoToken]
    ELSE IF ~passwordOK
    THEN [err |-> ErrInvalidCredentials, access |-> NoToken, refresh |-> NoToken]
    ELSE [err |-> NoErr, access |-> GenerateAccessTokenOf(BlockJWT, acct, t),
          refresh |-> GenerateRefreshTokenOf(BlockJWT, acct, t)]

\* AuthService.RefreshToken: ValidateRefreshToken, GetByID, the two tokens.
RefreshTokenOf(isBlockedOf, tok, t) ==
    LET v == ValidateRefreshTokenOf(BlockJWT, tok, t) IN
    IF v.err # NoErr THEN [err |-> v.err, uid |-> "", access |-> NoToken, refresh |-> NoToken]
    ELSE LET acct == AccountOf(v.claims.uid) IN
         [err |-> NoErr, uid |-> acct.id,
          access |-> GenerateAccessTokenOf(BlockJWT, acct, t),
          refresh |-> GenerateRefreshTokenOf(BlockJWT, acct, t)]

\* UserRepository.UpdateStatus: UPDATE users SET is_blocked = $2 WHERE id = $1
UserUpdateStatus(isBlockedOf, userID, isBlocked) ==
    IF userID \in DOMAIN isBlockedOf
    THEN [err |-> NoErr, rows |-> [isBlockedOf EXCEPT ![userID] = isBlocked]]
    ELSE [err |-> ErrUserNotFound, rows |-> isBlockedOf]

LoginRequest ==
    \E acct \in Accounts, passwordOK \in BOOLEAN :
        LET r == Login(blocked[acct.id], acct, passwordOK, bnow) IN
        /\ bresp' = [op |-> "Login", uid |-> acct.id, err |-> r.err,
                     status |-> IF r.err = NoErr THEN StatusOK
                                ELSE IF r.err = ErrUserBlocked THEN StatusForbidden
                                ELSE StatusUnauthorized,
                     access |-> r.access, blocked |-> blocked[acct.id]]
        /\ held' = IF r.err = NoErr THEN held \cup {r.refresh} ELSE held
        /\ UNCHANGED <<blocked, bnow, notBlockVars>>

RefreshRequest ==
    \E tok \in held :
        LET r == RefreshTokenOf(blocked, tok, bnow) IN
        /\ bresp' = [op |-> "RefreshToken", uid |-> tok.uid, err |-> r.err,
                     status |-> IF r.err = NoErr THEN StatusOK ELSE StatusUnauthorized,
                     access |-> r.access, blocked |-> blocked[tok.uid]]
        /\ held' = IF r.err = NoErr THEN held \cup {r.refresh} ELSE held
        /\ UNCHANGED <<blocked, bnow, notBlockVars>>

\* AdminHandler.BlockUser, called by the administrator a1.
BlockUser ==
    \E userID \in BlockTargets, isBlocked \in BOOLEAN :
        IF userID = "a1"
        THEN /\ bresp' = [NoBResp EXCEPT !.op = "BlockUser", !.uid = userID,
                                         !.status = StatusBadRequest]
             /\ UNCHANGED <<blocked, held, bnow, notBlockVars>>
        ELSE LET u == UserUpdateStatus(blocked, userID, isBlocked) IN
             /\ blocked' = u.rows
             /\ bresp' = [NoBResp EXCEPT !.op = "BlockUser", !.uid = userID, !.err = u.err,
                            !.status = IF u.err = NoErr THEN StatusOK ELSE StatusNotFound,
                            !.blocked = isBlocked]
             /\ UNCHANGED <<held, bnow, notBlockVars>>

BlockTick ==
    /\ bnow < MaxTime
    /\ bnow' = bnow + 1
    /\ UNCHANGED <<blocked, held, bresp, notBlockVars>>

NextBlock ==
    \/ LoginRequest
    \/ RefreshRequest
    \/ BlockUser
    \/ BlockTick

SpecBlock == InitBlock /\ [][NextBlock]_vars

\* C28: Login and RefreshToken give no access token to a user who is blocked
\* when the operation runs.
C28_NoTokenWhileBlocked ==
    (bresp.op \in {"Login", "RefreshToken"} /\ bresp.blocked) => bresp.access = NoToken
====
